---------------------------- MODULE Spec2Model ----------------------------
(***************************************************************************)
(* Layout-to-record reconstruction engine of the IL6 control catalog.      *)
(*                                                                         *)
(* Text is modelled as TLA+ strings, read character by character, so that  *)
(* strip(), startswith(), "in" and the regular expressions of the source   *)
(* are computed, not assumed.  A table cell that is None and a cell that   *)
(* is '' are the same value "": every use of a cell in the source tests    *)
(* its truthiness first.  Column indexes are 0-based as in the source.     *)
(***************************************************************************)
EXTENDS Integers, Sequences, FiniteSets, TLC

(***************************************************************************)
(* Strings                                                                 *)
(***************************************************************************)
Ch(s, i) == SubSeq(s, i, i)

Upper == "ABCDEFGHIJKLMNOPQRSTUVWXYZ"

Lower == "abcdefghijklmnopqrstuvwxyz"

Digits == "0123456789"

CharsOf(s) == {Ch(s, i) : i \in 1..Len(s)}

UpperChars == CharsOf(Upper)

DigitChars == CharsOf(Digits)

IsUpper(c) == c \in UpperChars

IsDigit(c) == c \in DigitChars

IsSpace(c) == c \in {" ", "\t", "\n"}

\* the least and the greatest number of a non-empty set of numbers
Least(S) == CHOOSE i \in S : \A j \in S : i <= j

Greatest(S) == CHOOSE i \in S : \A j \in S : j <= i

\* str.strip(): from the first to the last character that is no whitespace
Strip(s) ==
    LET inked == {i \in 1..Len(s) : ~IsSpace(Ch(s, i))}
    IN  IF inked = {} THEN "" ELSE SubSeq(s, Least(inked), Greatest(inked))

\* str.startswith(p)
StartsWith(s, p) == Len(s) >= Len(p) /\ SubSeq(s, 1, Len(p)) = p

\* p in s
Contains(s, p) ==
    \E i \in 1..(Len(s) - Len(p) + 1) : SubSeq(s, i, i + Len(p) - 1) = p

\* the lower-case letter of every upper-case letter
LowerOf == [c \in UpperChars |-> Ch(Lower, CHOOSE i \in 1..Len(Upper) : Ch(Upper, i) = c)]

\* str.lower(), one character
LowerCh(c) == IF IsUpper(c) THEN LowerOf[c] ELSE c

\* str.lower()
ToLower(s) ==
    LET low[i \in 0..Len(s)] == IF i = 0 THEN "" ELSE low[i - 1] \o LowerCh(Ch(s, i))
    IN  low[Len(s)]

\* the number of digits s has at positions i, i+1, ...  (a greedy \d*)
DigitRun(s, i) ==
    LET stops == {j \in i..Len(s) : ~IsDigit(Ch(s, j))}
    IN  IF stops = {}
        THEN IF i <= Len(s) THEN Len(s) - i + 1 ELSE 0
        ELSE Least(stops) - i

\* re.match(r'^[A-Z]{2}-\d+(\(\d+\))?$', s)
MatchControlId(s) ==
    /\ Len(s) >= 4
    /\ IsUpper(Ch(s, 1))
    /\ IsUpper(Ch(s, 2))
    /\ Ch(s, 3) = "-"
    /\ LET d == DigitRun(s, 4)
           p == 4 + d
       IN  /\ d >= 1
           /\ \/ p = Len(s) + 1
              \/ /\ p <= Len(s)
                 /\ Ch(s, p) = "("
                 /\ LET e == DigitRun(s, p + 1)
                    IN  /\ e >= 1
                        /\ p + 1 + e = Len(s)
                        /\ Ch(s, Len(s)) = ")"

\* s.split('-')[0]
SplitHead(s) ==
    LET hyphens == {i \in 1..Len(s) : Ch(s, i) = "-"}
    IN  IF hyphens = {} THEN s ELSE SubSeq(s, 1, Least(hyphens) - 1)

\* Python's None, where the source returns or stores it in place of a text
None == "<None>"


(***************************************************************************)
(* Table pipeline: extract_cnssi_1253.py                                   *)
(***************************************************************************)
\* TableStructure.justification_col / param_value_col when not detected
NoCol == -1

\* TableStructure(): no range, no free-text column
NoStructure == [ranges |-> <<>>, justification_col |-> NoCol, param_value_col |-> NoCol]

\* row[i], i counted from 0
Cell(cells, i) == cells[i + 1]

\* the column indexes of a row, in enumerate() order
Columns(cells) == [i \in 1..Len(cells) |-> i - 1]

\* lmh_positions: (column, level) of every L/M/H token of the third header row
LmhPositions(cells) ==
    LET hit(i) == Strip(Cell(cells, i)) \in {"L", "M", "H"}
        cols == SelectSeq(Columns(cells), hit)
    IN  [k \in 1..Len(cols) |-> [col |-> cols[k], level |-> Strip(Cell(cells, cols[k]))]]

\* structure.ranges[name] = (start, end): a dict keeps the place of a key
\* that is assigned again
DictSet(ranges, name, start, end) ==
    IF \E k \in 1..Len(ranges) : ranges[k].name = name
    THEN [k \in 1..Len(ranges) |->
            IF ranges[k].name = name
            THEN [name |-> name, start |-> start, end |-> end]
            ELSE ranges[k]]
    ELSE Append(ranges, [name |-> name, start |-> start, end |-> end])

cia_list == <<"C", "I", "A">>

\* EndCol with the range running up to the next token's own column
EndCol_UpToNext(lmh, col) ==
    LET later == {j \in 1..Len(lmh) : lmh[j].col > col}
    IN  IF later = {}
        THEN col + 2
        ELSE lmh[Least(later)].col

\* the end of the range of the token at col: the column before the next
\* token, or col + 2 for the last token
EndCol(lmh, col) ==
    LET later == {j \in 1..Len(lmh) : lmh[j].col > col}
    IN  IF later = {}
        THEN col + 2
        ELSE lmh[Least(later)].col - 1

\* one pass of the loop over lmh_positions, for its k-th token: the ranges,
\* cia_idx and level_count it leaves
RangeStep(lmh, k, st) ==
    IF st.cia_idx < Len(cia_list)
    THEN LET col == lmh[k].col
             name == cia_list[st.cia_idx + 1] \o "-" \o lmh[k].level
             next == st.level_count + 1
         IN  [ranges      |-> DictSet(st.ranges, name, col, EndCol(lmh, col)),
              cia_idx     |-> IF next >= 3 THEN st.cia_idx + 1 ELSE st.cia_idx,
              level_count |-> IF next >= 3 THEN 0 ELSE next]
    ELSE st

\* structure.ranges after the loop over lmh_positions
BuildRanges(lmh) ==
    LET after[k \in 0..Len(lmh)] ==
            IF k = 0
            THEN [ranges |-> <<>>, cia_idx |-> 0, level_count |-> 0]
            ELSE RangeStep(lmh, k, after[k - 1])
    IN  after[Len(lmh)].ranges

\* 'justification' in cell_str
IsJustificationLabel(cell_str) == Contains(cell_str, "justification")

\* the elif: 'parameter' in cell_str
IsParameterLabel(cell_str) ==
    ~Contains(cell_str, "justification") /\ Contains(cell_str, "parameter")

\* the last of the columns hits, the one the loop leaves assigned
LastCol(hits) == IF hits = {} THEN NoCol ELSE Greatest(hits)

\* justification_col after the loop over the first header row
JustificationCol(cells) ==
    LastCol({i \in 0..(Len(cells) - 1) : IsJustificationLabel(ToLower(Strip(Cell(cells, i))))})

\* param_value_col after the loop over the first header row
ParamValueCol(cells) ==
    LastCol({i \in 0..(Len(cells) - 1) : IsParameterLabel(ToLower(Strip(Cell(cells, i))))})

\* detect_table_structure(header_rows).  cia_positions is computed by the
\* source and never read, so it has no part in the result.
detect_table_structure(rows) ==
    [ranges |->
        IF Len(rows) >= 3
        THEN BuildRanges(LmhPositions(rows[3]))
        ELSE <<>>,
     justification_col |->
        IF Len(rows) >= 1
        THEN JustificationCol(rows[1])
        ELSE NoCol,
     param_value_col |->
        IF Len(rows) >= 1
        THEN ParamValueCol(rows[1])
        ELSE NoCol]

\* parse_control_row returning None
NoRecord == [none |-> TRUE]

IsNone(r) == "none" \in DOMAIN r

\* the least number of cells of a data row
MinRowCells == 10

\* is_selected(val)
is_selected(val) == Strip(val) \in {"X", "+"}

\* is_withdrawn
RowWithdrawn(cells) == \E i \in 0..(Len(cells) - 1) : Contains(Cell(cells, i), "Withdrawn")

Min(a, b) == IF a < b THEN a ELSE b

\* the columns, among the first four, whose stripped cell is an identifier
IdColumns(cells) ==
    {i \in 0..(Min(4, Len(cells)) - 1) : MatchControlId(Strip(Cell(cells, i)))}

\* control_col_idx: the first of them
ControlCol(cells) == Least(IdColumns(cells))

\* title: the first non-blank cell among the four after the identifier
RowTitle(cells, control_col_idx) ==
    LET cand == {o \in 1..4 :
                    /\ control_col_idx + o < Len(cells)
                    /\ Strip(Cell(cells, control_col_idx + o)) # ""}
    IN  IF cand = {}
        THEN ""
        ELSE Strip(Cell(cells, control_col_idx + Least(cand)))

PMText == "Deployed organization-wide. Supports information security program. Not associated with security control baselines. Independent of any system impact level."

PTText == "Personally Identifiable Information Processing and Transparency control are not allocated to the security control baselines."

\* special_case_text
SpecialCaseText(family) ==
    IF family = "PM" THEN PMText ELSE IF family = "PT" THEN PTText ELSE None

\* RangeOf with the end of a range left out of it
RangeOf_EndExclusive(ranges, col_idx) ==
    LET hits == {k \in 1..Len(ranges) :
                    ranges[k].start <= col_idx /\ col_idx < ranges[k].end}
    IN  IF hits = {} THEN 0 ELSE Least(hits)

\* the range a marked column falls into: the first of structure.ranges, in
\* the dict's order, that holds it (the loop breaks there); 0 when none does
RangeOf(ranges, col_idx) ==
    LET hits == {k \in 1..Len(ranges) :
                    ranges[k].start <= col_idx /\ col_idx <= ranges[k].end}
    IN  IF hits = {} THEN 0 ELSE Least(hits)

\* selections[cia_map[cia]][level_map[level]] after the loop over the cells
Selection(cells, ranges, cia, level) ==
    \E col_idx \in 0..(Len(cells) - 1) :
        /\ is_selected(Cell(cells, col_idx))
        /\ RangeOf(ranges, col_idx) # 0
        /\ ranges[RangeOf(ranges, col_idx)].name = cia \o "-" \o level

Objective(cells, ranges, cia) ==
    [low      |-> Selection(cells, ranges, cia, "L"),
     moderate |-> Selection(cells, ranges, cia, "M"),
     high     |-> Selection(cells, ranges, cia, "H")]

\* justification / parameter_value: the text of the designated column, with
\* the empty markers read as None.  A column index of 0 is falsy in the
\* source's test, like None.
FreeText(cells, col) ==
    IF col > 0 /\ col < Len(cells)
    THEN LET str == Strip(Cell(cells, col))
         IN  IF str \in {"", "None", "X", "+"} THEN None ELSE str
    ELSE None

\* AnySelected looking at the confidentiality objective only
AnySelected_FirstObjective(selections) ==
    selections.confidentiality.low \/ selections.confidentiality.moderate
        \/ selections.confidentiality.high

AnySelected(selections) ==
    \E o \in {"confidentiality", "integrity", "availability"} :
        selections[o].low \/ selections[o].moderate \/ selections[o].high

\* RowSelected with the family overrides applied after the withdrawn override
RowSelected_FamilyLast(family, selections, is_withdrawn) ==
    IF family = "PM"
    THEN TRUE
    ELSE IF family = "PT"
    THEN FALSE
    ELSE IF is_withdrawn THEN FALSE ELSE AnySelected(selections)

\* RowSelected without the PM override
RowSelected_NoPM(family, selections, is_withdrawn) ==
    IF is_withdrawn
    THEN FALSE
    ELSE IF family = "PT" THEN FALSE ELSE AnySelected(selections)

\* RowSelected without the PT override
RowSelected_NoPT(family, selections, is_withdrawn) ==
    IF is_withdrawn
    THEN FALSE
    ELSE IF family = "PM" THEN TRUE ELSE AnySelected(selections)

\* selected, after the family overrides and the withdrawn override
RowSelected(family, selections, is_withdrawn) ==
    IF is_withdrawn
    THEN FALSE
    ELSE IF family = "PM"
    THEN TRUE
    ELSE IF family = "PT" THEN FALSE ELSE AnySelected(selections)

\* parse_control_row(row, structure).  withdrawn = FALSE stands for a record
\* without the 'withdrawn' key; selections.special_text = None for
\* selections without the 'special_text' key (the key is added after
\* selected is computed).
parse_control_row(cells, struct) ==
    IF Len(cells) < MinRowCells \/ IdColumns(cells) = {}
    THEN NoRecord
    ELSE LET control_col_idx == ControlCol(cells)
             control_id == Strip(Cell(cells, control_col_idx))
             family == SplitHead(control_id)
             selections ==
                [confidentiality |-> Objective(cells, struct.ranges, "C"),
                 integrity       |-> Objective(cells, struct.ranges, "I"),
                 availability    |-> Objective(cells, struct.ranges, "A"),
                 special_text    |-> SpecialCaseText(family)]
         IN  [control_id      |-> control_id,
              title           |-> RowTitle(cells, control_col_idx),
              selected        |-> RowSelected(family, selections, RowWithdrawn(cells)),
              selections      |-> selections,
              parameter_value |-> FreeText(cells, struct.param_value_col),
              justification   |-> FreeText(cells, struct.justification_col),
              withdrawn       |-> RowWithdrawn(cells)]

\* prev_structure = None: no table with header rows was seen yet
NoPrevStructure == [none |-> TRUE]

\* has_control: a cell among the first three of some row is an identifier
has_control(extracted) ==
    \E k \in 1..Len(extracted) :
        \E i \in 0..(Min(3, Len(extracted[k])) - 1) :
            MatchControlId(Strip(Cell(extracted[k], i)))

\* a test for the text SC-18(3) in the place of SC-18(2)
is_page_136_continuation_SC18_3(extracted) ==
    \E k \in 1..Len(extracted) :
        \E i \in 0..(Min(3, Len(extracted[k])) - 1) :
            Contains(Cell(extracted[k], i), "SC-18(3)")

\* is_page_136_continuation: a cell among the first three of some row holds
\* the text SC-18(2)
is_page_136_continuation(extracted) ==
    \E k \in 1..Len(extracted) :
        \E i \in 0..(Min(3, Len(extracted[k])) - 1) :
            Contains(Cell(extracted[k], i), "SC-18(2)")

IntegrityOnly ==
    [confidentiality |-> [low |-> FALSE, moderate |-> FALSE, high |-> FALSE],
     integrity       |-> [low |-> TRUE, moderate |-> TRUE, high |-> TRUE],
     availability    |-> [low |-> FALSE, moderate |-> FALSE, high |-> FALSE],
     special_text    |-> None]

\* hardcoded_controls: the two pre-authored records
hardcoded_controls ==
    <<[control_id      |-> "SC-18(2)",
       title           |-> "Acquisition, Development, and Use",
       selected        |-> TRUE,
       selections      |-> IntegrityOnly,
       parameter_value |-> "the following requirements:\n(a) Category 1A mobile code where technologies can differentiate between signed and unsigned mobile code and block execution of unsigned mobile code may be used.\n(b) Category 2 mobile code allowing mediated or controlled access to workstation, server, and remote system services and resources may be used with appropriate protections (e.g., executes in a constrained environment without access to system resources such as Windows registry, file system, system parameters, and network connections to other than the originating host; does not execute in a constrained environment unless obtained from a trusted source over an assured channel).\n(c) Category 3 mobile code having limited functionality, with no capability for unmediated access to workstation, server, and remote system services and resources may be used when executing in an approved browser.",
       justification   |-> "NSS Best Practice",
       withdrawn       |-> FALSE],
      [control_id      |-> "SC-18(3)",
       title           |-> "Prevent Downloading and Execution",
       selected        |-> TRUE,
       selections      |-> IntegrityOnly,
       parameter_value |-> "all unacceptable mobile code such as:\n(a) Emerging mobile code technologies that have not undergone a risk assessment and been assigned to a Risk Category by the CIO.\n(b) Category 1X mobile code technologies and implementations that cannot differentiate between signed and unsigned mobile code.\n(c) Unsigned Category 1A mobile code.\n(d) Category 2 mobile code not obtained from a trusted source over an assured channel (e.g., SIPRNet, SSL connection, S/MIME, code is signed with an approved code signing certificate).",
       justification   |-> "NSS Best Practice",
       withdrawn       |-> FALSE]>>

\* the records of the rows, in row order, the rejected rows left out
ParseRows(rows, struct) ==
    LET kept(control_data) == ~IsNone(control_data)
    IN  SelectSeq([k \in 1..Len(rows) |-> parse_control_row(rows[k], struct)], kept)

\* a table of fewer than 4 rows
IsShortTable(extracted) == Len(extracted) < 4

\* the records one table of the page adds to controls.  prev is the
\* prev_structure the page was entered with.
TableControls(extracted, prev) ==
    IF IsShortTable(extracted)
    THEN IF ~IsNone(prev) /\ Len(extracted) > 0 /\ has_control(extracted)
         THEN IF is_page_136_continuation(extracted)
              THEN hardcoded_controls
              ELSE ParseRows(extracted, prev)
         ELSE <<>>
    ELSE ParseRows(SubSeq(extracted, 4, Len(extracted)),
                   detect_table_structure(SubSeq(extracted, 1, 3)))

\* last_structure after the table
TableStructureAfter(extracted, last) ==
    IF IsShortTable(extracted)
    THEN last
    ELSE detect_table_structure(SubSeq(extracted, 1, 3))

\* all_controls[control_id] = control
StoreControl(all, control) ==
    [id \in DOMAIN all \cup {control.control_id} |->
        IF id = control.control_id THEN control ELSE all[id]]

\* the loop over the controls of a page, in order
StoreControls(all, page_controls) ==
    LET after[k \in 0..Len(page_controls)] ==
            IF k = 0 THEN all ELSE StoreControl(after[k - 1], page_controls[k])
    IN  after[Len(page_controls)]

(***************************************************************************)
(* State                                                                   *)
(***************************************************************************)
VARIABLES
    pc,            \* the position of the run
    header_rows,   \* extracted[:3] of the table at hand
    structure,     \* the TableStructure detected from header_rows
    row,           \* the table row handed to parse_control_row
    result,        \* what parse_control_row returned for row
    all_controls,  \* extract_cnssi_1253_2022: identifier -> stored record
    prev_structure,\* extract_cnssi_1253_2022: the structure handed to the next page
    classifier,    \* ClassifiedControlExtractor: controls and the three cursors
    section6,      \* extract_controls_from_pdf: controls, current_control, current_field
    page_num,      \* the number of the page being read
    lines_read,    \* the number of lines read so far
    leading,       \* no identifier or enhancement header was read yet on this page
    scenario,      \* the header, justification and continuation lines read last
    extractor,     \* CNSSI1253Extractor: controls, current_control_id, current_control_elements
    pages_done,    \* the number of pages _process_page was called for
    finalized,     \* identifier -> what _parse_control_group returned for it, in order
    call_args,     \* the arguments of the function that is called on its own
    call_result    \* what that function returned

fnVars == <<header_rows, structure, row, result>>

tableVars == <<all_controls, prev_structure>>

lineVars == <<classifier, section6, page_num, lines_read, leading, scenario>>

overlayVars == <<extractor, pages_done, finalized>>

callVars == <<call_args, call_result>>

vars == <<pc, fnVars, tableVars, lineVars, overlayVars, callVars>>

\* no header line was read, or the lines after it were of another kind
NoScenario == [none |-> TRUE]

\* ClassifiedControlExtractor.__init__
NewClassifier ==
    [controls             |-> <<>>,
     current_control      |-> None,
     current_base_control |-> None,
     current_attribute    |-> None]

\* extract_controls_from_pdf before the loop over the pages of Section 6
NewSection6 ==
    [controls        |-> <<>>,
     current_control |-> None,
     current_field   |-> None,
     returned        |-> FALSE]

\* CNSSI1253Extractor.__init__
NewExtractor ==
    [controls                 |-> <<>>,
     current_control_id       |-> None,
     current_control_elements |-> <<>>]

\* the variables of a pipeline that is not running
FnIdle == header_rows = <<>> /\ structure = NoStructure /\ row = <<>> /\ result = NoRecord

TableIdle == all_controls = <<>> /\ prev_structure = NoPrevStructure

LinesIdle ==
    /\ classifier = NewClassifier
    /\ section6 = NewSection6
    /\ page_num = 0
    /\ lines_read = 0
    /\ leading = TRUE
    /\ scenario = NoScenario

OverlayIdle == extractor = NewExtractor /\ pages_done = 0 /\ finalized = <<>>

\* no function was called on its own
CallIdle == call_args = <<>> /\ call_result = <<>>

FnOnly == UNCHANGED <<tableVars, lineVars, overlayVars, callVars>>

TableOnly == UNCHANGED <<fnVars, lineVars, overlayVars, callVars>>

LinesOnly == UNCHANGED <<fnVars, tableVars, overlayVars, callVars>>

OverlayOnly == UNCHANGED <<fnVars, tableVars, lineVars, callVars>>

CallOnly == UNCHANGED <<fnVars, tableVars, lineVars, overlayVars>>

(***************************************************************************)
(* Bounded inputs of the table pipeline                                    *)
(***************************************************************************)
\* tables are up to MinRowCells + ExtraCols cells wide
ExtraCols == 1

\* a row carries at most MaxMarks filled marker cells
MaxMarks == 1

Widths == (MinRowCells - 1)..(MinRowCells + ExtraCols)

\* the level tokens of a third header row, repeated every three tokens
Patterns ==
    {<<"L", "M", "H">>, <<" L", "M ", "H">>, <<"H", "M", "L">>, <<"L", "L", "M">>}

Canonical == <<"L", "M", "H">>

\* how many of cols are below c
Rank(cols, c) == Cardinality({d \in cols : d < c})

\* a third header row of w cells with tokens at the columns cols
TokenRow(w, cols, pat) ==
    [i \in 1..w |-> IF (i - 1) \in cols THEN pat[(Rank(cols, i - 1) % 3) + 1] ELSE ""]

BlankRow(w) == [i \in 1..w |-> ""]

\* a first header row naming the identifier, title and free-text columns
LabelRow(w) ==
    [i \in 1..w |->
        IF i = 1 THEN "ID"
        ELSE IF i = 2 THEN "TITLE"
        ELSE IF i = w - 1 THEN "Justification for NSS"
        ELSE IF i = w THEN "Parameter Value"
        ELSE ""]

\* a second header row with the anchors C, I, A
AnchorRow(w) ==
    [i \in 1..w |-> IF i = 3 THEN "C" ELSE IF i = 6 THEN "I" ELSE IF i = 9 THEN "A" ELSE ""]

Headers(w, firsts, colsets, pats) ==
    {<<first, AnchorRow(w), TokenRow(w, cols, pat)>> :
        first \in firsts, cols \in colsets, pat \in pats}

\* a third header row leaves at most MaxBlank of its cells without a token
MaxBlank == 2

\* n tokens from column s on, every d-th column
Stride(s, d, n) == {s + (k - 1) * d : k \in 1..n}

\* the token placements of a row of w cells: nearly full rows, and rows of
\* three tokens only
Colsets(w) ==
    {cols \in SUBSET (0..(w - 1)) : Cardinality(cols) >= w - MaxBlank}
        \cup {Stride(2, d, 3) : d \in 1..2}

AllHeaders ==
    UNION {Headers(w, {BlankRow(w), LabelRow(w)}, Colsets(w), Patterns) : w \in Widths}

RowColsets(w) ==
    {cols \in {Stride(s, 1, 9) : s \in 0..2} \cup {Stride(2, d, 3) : d \in 1..2} :
        cols \subseteq 0..(w - 1)}

RowHeaders ==
    UNION {Headers(w, {LabelRow(w)}, RowColsets(w), {Canonical, <<"L", "L", "M">>}) :
            w \in Widths}

RowIds == {"AC-3", "PM-1", "PT-2", "AC3"}

RowTitles == {"Access Enforcement", "Withdrawn: Incorporated into AC-6"}

MarkCells == {"X", "+", " X ", "NSS"}

\* a data row of w cells: identifier at column p, title next to it, the
\* cell mark at the columns marks
DataRow(w, p, id, title, marks, mark) ==
    [i \in 1..w |->
        IF i - 1 = p THEN id
        ELSE IF i - 1 = p + 1 THEN title
        ELSE IF (i - 1) \in marks THEN mark
        ELSE ""]

DataRows(w) ==
    {DataRow(w, p, id, title, marks, mark) :
        p \in 0..1, id \in RowIds, title \in RowTitles, mark \in MarkCells,
        marks \in {m \in SUBSET (2..(w - 1)) : Cardinality(m) <= MaxMarks}}

(***************************************************************************)
(* Specifications of the table functions                                   *)
(***************************************************************************)
\* detect_table_structure applied to the header rows at hand
Detect ==
    /\ pc = "header"
    /\ structure' = detect_table_structure(header_rows)
    /\ pc' = "rows"
    /\ UNCHANGED <<header_rows, row, result>>
    /\ FnOnly

\* parse_control_row applied to a row of the table, under its structure
ParseRow ==
    /\ pc = "rows"
    /\ \E r \in DataRows(Len(header_rows[1])) :
        /\ row' = r
        /\ result' = parse_control_row(r, structure)
    /\ pc' = "parsed"
    /\ UNCHANGED <<header_rows, structure>>
    /\ FnOnly

InitStructure ==
    /\ pc = "header"
    /\ header_rows \in AllHeaders
    /\ structure = NoStructure
    /\ row = <<>>
    /\ result = NoRecord
    /\ TableIdle
    /\ LinesIdle
    /\ OverlayIdle
    /\ CallIdle

NextStructure == Detect

\* the structure detector over every header
SpecStructure == InitStructure /\ [][NextStructure]_vars

InitRow ==
    /\ pc = "header"
    /\ header_rows \in RowHeaders
    /\ structure = NoStructure
    /\ row = <<>>
    /\ result = NoRecord
    /\ TableIdle
    /\ LinesIdle
    /\ OverlayIdle
    /\ CallIdle

NextRow == Detect \/ ParseRow

\* the row classifier over the rows of a table
SpecRow == InitRow /\ [][NextRow]_vars

(***************************************************************************)
(* The table pipeline over the pages of a document                         *)
(***************************************************************************)
\* a page holds at most MaxTables tables
MaxTables == 2

\* the width of the tables of the document
PageWidth == MinRowCells + ExtraCols

HeaderA == <<LabelRow(PageWidth), AnchorRow(PageWidth),
             TokenRow(PageWidth, Stride(2, 1, 9), Canonical)>>

HeaderB == <<LabelRow(PageWidth), AnchorRow(PageWidth),
             TokenRow(PageWidth, Stride(1, 1, 9), Canonical)>>

RowMarked == DataRow(PageWidth, 0, "AC-3", "Access Enforcement", {3}, "X")

RowWithdrawnOnly ==
    DataRow(PageWidth, 0, "AC-3", "Withdrawn: Incorporated into AC-6", {}, "")

RowSC18 == DataRow(PageWidth, 0, "SC-18(2)", "Acquisition, Development, and Use", {6}, "X")

RowPM == DataRow(PageWidth, 0, "PM-1", "Information Security Program Plan", {}, "")

\* the tables of the document: tables with header rows, continuation
\* tables without, and a table of four rows that has no header rows
TableList ==
    <<HeaderA \o <<RowMarked>>,
      HeaderA \o <<RowWithdrawnOnly>>,
      HeaderA \o <<RowSC18>>,
      HeaderA \o <<BlankRow(PageWidth)>>,
      HeaderA \o <<RowSC18, RowMarked>>,
      HeaderB \o <<RowMarked>>,
      <<RowMarked>>,
      <<RowWithdrawnOnly>>,
      <<RowSC18>>,
      <<BlankRow(PageWidth)>>,
      <<RowSC18, RowMarked>>,
      <<RowMarked, RowMarked, RowMarked, RowWithdrawnOnly>>,
      HeaderA \o <<RowPM>>,
      <<RowPM>>>>

\* a table of a page, named by its place in TableList
Tables == 1..Len(TableList)

\* the sequences of at most n members of S
SeqsUpTo(S, n) == UNION {[1..k -> S] : k \in 0..n}

\* the pages of the document: up to MaxTables tables each
Pages == SeqsUpTo(Tables, MaxTables)

\* the values prev_structure can take in a run over these tables
KnownStructures ==
    {NoPrevStructure}
        \cup {detect_table_structure(SubSeq(TableList[i], 1, 3)) :
                i \in {j \in Tables : ~IsShortTable(TableList[j])}}

\* TableControls tabulated over the tables of the document
ControlsOf ==
    [i \in Tables |-> [prev \in KnownStructures |-> TableControls(TableList[i], prev)]]

\* TableStructureAfter tabulated over the tables of the document
StructureOf ==
    [i \in Tables |-> [last \in KnownStructures |-> TableStructureAfter(TableList[i], last)]]

\* extract_controls_from_page: controls, the records of the tables of the
\* page in order.  Every table is read against prev, the structure the page
\* was entered with.
PageControls(tables, prev) ==
    LET upto[k \in 0..Len(tables)] ==
            IF k = 0 THEN <<>> ELSE upto[k - 1] \o ControlsOf[tables[k]][prev]
    IN  upto[Len(tables)]

\* extract_controls_from_page: last_structure, starting from last
PageStructure(tables, last) ==
    LET after[k \in 0..Len(tables)] ==
            IF k = 0 THEN last ELSE StructureOf[tables[k]][after[k - 1]]
    IN  after[Len(tables)]

\* one pass of the page loop over a page that holds tables
ProcessPage ==
    /\ pc = "pages"
    /\ \E tables \in Pages :
        /\ all_controls' = StoreControls(all_controls, PageControls(tables, prev_structure))
        /\ prev_structure' = PageStructure(tables, prev_structure)
    /\ UNCHANGED pc
    /\ TableOnly

\* one pass of the page loop over a page whose text has neither a table
\* caption nor an identifier: the page is skipped
SkipPage ==
    /\ pc = "pages"
    /\ UNCHANGED <<pc, tableVars>>
    /\ TableOnly

\* doc.close(); return all_controls
ReturnControls ==
    /\ pc = "pages"
    /\ pc' = "returned"
    /\ UNCHANGED tableVars
    /\ TableOnly

InitTable ==
    /\ pc = "pages"
    /\ all_controls = <<>>
    /\ prev_structure = NoPrevStructure
    /\ FnIdle
    /\ LinesIdle
    /\ OverlayIdle
    /\ CallIdle

NextTable == ProcessPage \/ SkipPage \/ ReturnControls

\* extract_cnssi_1253_2022 over every sequence of pages
SpecTable == InitTable /\ [][NextTable]_vars

(***************************************************************************)
(* Properties of the row classifier (SpecRow)                              *)
(***************************************************************************)
\* parse_control_row accepted the row at hand
Accepted == pc = "parsed" /\ ~IsNone(result)

HasWithdrawnCell == \E i \in 1..Len(row) : Contains(row[i], "Withdrawn")

\* the letters of the identifier before its hyphen
FamilyOf(id) == SubSeq(id, 1, 2)

\* the columns of the row whose stripped cell is X or +
MarkedCols == {c \in 0..(Len(row) - 1) : Strip(row[c + 1]) \in {"X", "+"}}

\* the detected range of the key holds column c
InRange(key, c) ==
    \E k \in 1..Len(structure.ranges) :
        /\ structure.ranges[k].name = key
        /\ structure.ranges[k].start <= c
        /\ c <= structure.ranges[k].end

Groups == {<<"C", "confidentiality">>, <<"I", "integrity">>, <<"A", "availability">>}

Levels == {<<"L", "low">>, <<"M", "moderate">>, <<"H", "high">>}

\* one of the nine selection booleans of the result is set
SomeBoolean == \E g \in Groups, l \in Levels : result.selections[g[2]][l[2]]

\* C1: an accepted row with a cell holding "Withdrawn" yields selected = False
\* and withdrawn = True, whatever its marks and its family (PM included).
C1_WithdrawnNeverSelected ==
    (Accepted /\ HasWithdrawnCell) => (~result.selected /\ result.withdrawn)

C1_Witness ==
    /\ Accepted
    /\ HasWithdrawnCell
    /\ FamilyOf(result.control_id) = "PM"
    /\ SomeBoolean
    /\ ~result.selected

\* C2 as stated: every accepted PM row yields selected = True, whatever the
\* other cells of the row hold.
C2_PMAlwaysSelected ==
    (Accepted /\ FamilyOf(result.control_id) = "PM") => result.selected

\* C2 amended: every accepted PM row none of whose cells holds "Withdrawn"
\* yields selected = True, whatever its marks; a PM row with a withdrawn
\* marker yields selected = False.
C2_PMSelectedUnlessWithdrawn ==
    (Accepted /\ FamilyOf(result.control_id) = "PM")
        => (result.selected <=> ~HasWithdrawnCell)

C2_Witness ==
    /\ Accepted
    /\ FamilyOf(result.control_id) = "PM"
    /\ ~HasWithdrawnCell
    /\ ~SomeBoolean
    /\ result.selected

\* C3: every accepted PT row yields selected = False, also with marks inside
\* detected ranges.
C3_PTNeverSelected ==
    (Accepted /\ FamilyOf(result.control_id) = "PT") => ~result.selected

C3_Witness ==
    /\ Accepted
    /\ FamilyOf(result.control_id) = "PT"
    /\ ~HasWithdrawnCell
    /\ SomeBoolean
    /\ ~result.selected

\* C4: for an accepted row of a family other than PM and PT without a
\* withdrawn marker, selected is True exactly when one of the nine selection
\* booleans is True; a row without marker cells yields selected = False.
C4_SelectedIffSomeSelection ==
    (/\ Accepted
     /\ FamilyOf(result.control_id) \notin {"PM", "PT"}
     /\ ~HasWithdrawnCell)
        => /\ result.selected <=> SomeBoolean
           /\ MarkedCols = {} => ~result.selected

C4_Witness ==
    /\ Accepted
    /\ FamilyOf(result.control_id) \notin {"PM", "PT"}
    /\ ~HasWithdrawnCell
    /\ result.selected
    /\ ~result.selections.confidentiality.low
    /\ ~result.selections.confidentiality.moderate
    /\ ~result.selections.confidentiality.high

\* the row of the end-to-end scenario
ScenarioRow == <<"AC-3", "Access Enforcement", "", "X", "", "", "", "", "", "", "">>

\* the stripped L/M/H tokens of the third header row, left to right
HeaderTokens ==
    LET isToken(c) == Strip(c) \in {"L", "M", "H"}
        cells == SelectSeq(header_rows[3], isToken)
    IN  [k \in 1..Len(cells) |-> Strip(cells[k])]

NineTokens == HeaderTokens = <<"L", "M", "H", "L", "M", "H", "L", "M", "H">>

\* C6: each selection boolean of an accepted row is True exactly when a cell
\* whose stripped value is X or + sits at a column inside the detected range
\* of that group and level; for the header L M H L M H L M H and the scenario
\* row the record is AC-3, selected, with exactly the boolean of the range
\* holding column 3 set.
C6_BooleansFollowRanges ==
    Accepted =>
        /\ \A g \in Groups, l \in Levels :
            result.selections[g[2]][l[2]]
                <=> \E c \in MarkedCols : InRange(g[1] \o "-" \o l[1], c)
        /\ (NineTokens /\ row = ScenarioRow) =>
            /\ result.control_id = "AC-3"
            /\ result.selected
            /\ \E g \in Groups, l \in Levels : InRange(g[1] \o "-" \o l[1], 3)
            /\ \A g \in Groups, l \in Levels :
                result.selections[g[2]][l[2]] <=> InRange(g[1] \o "-" \o l[1], 3)

C6_Witness ==
    /\ Accepted
    /\ NineTokens
    /\ row = ScenarioRow
    /\ structure.ranges[2].start = 3
    /\ result.selections.confidentiality.moderate

(***************************************************************************)
(* Properties of the structure detector (SpecStructure)                    *)
(***************************************************************************)
NineNames == <<"C-L", "C-M", "C-H", "I-L", "I-M", "I-H", "A-L", "A-M", "A-H">>

\* C5: a third header row holding exactly the nine tokens L M H L M H L M H,
\* at any columns, yields exactly nine ranges keyed C-L .. A-H in that order,
\* each with start <= end, no column in two ranges, increasing left to right.
C5_NineOrderedRanges ==
    (pc = "rows" /\ NineTokens) =>
        /\ Len(structure.ranges) = 9
        /\ \A k \in 1..9 :
            /\ structure.ranges[k].name = NineNames[k]
            /\ structure.ranges[k].start <= structure.ranges[k].end
        /\ \A k \in 1..8 : structure.ranges[k].end < structure.ranges[k + 1].start
        /\ \A c \in 0..(Len(header_rows[3]) + 2) :
            Cardinality({k \in 1..9 : structure.ranges[k].start <= c
                                        /\ c <= structure.ranges[k].end}) <= 1

C5_Witness ==
    /\ pc = "rows"
    /\ NineTokens
    /\ Len(structure.ranges) = 9
    /\ \E k \in 1..8 : structure.ranges[k].start < structure.ranges[k].end
    /\ structure.ranges[1].start > 0


(***************************************************************************)
(* Properties of the record store of the table pipeline (SpecTable)        *)
(***************************************************************************)
\* the identifiers stored with withdrawn = True
StoredWithdrawn == {id \in DOMAIN all_controls : all_controls[id].withdrawn}

\* C10: once a record is stored with withdrawn = True, every later page
\* leaves the stored record of that identifier with withdrawn = True and
\* selected = False, also a page with a marked row for that identifier that
\* has no withdrawn marker.
C10_WithdrawalIsKept ==
    [][\A id \in StoredWithdrawn :
            /\ id \in DOMAIN all_controls'
            /\ all_controls'[id].withdrawn
            /\ ~all_controls'[id].selected]_vars

(***************************************************************************)
(* Strings of the free-text line pipelines                                 *)
(***************************************************************************)
\* str.lstrip()
LStrip(s) ==
    LET inked == {i \in 1..Len(s) : ~IsSpace(Ch(s, i))}
    IN  IF inked = {} THEN "" ELSE SubSeq(s, Least(inked), Len(s))

\* the text from position i on
From(s, i) == IF i > Len(s) THEN "" ELSE SubSeq(s, i, Len(s))

\* p stands in s at position i
HasAt(s, i, p) == i >= 1 /\ i + Len(p) - 1 <= Len(s) /\ SubSeq(s, i, i + Len(p) - 1) = p

\* the lower-case text p stands in s at position i, ignoring the case of s
HasAtIgnoreCase(s, i, p) ==
    /\ i >= 1
    /\ i + Len(p) - 1 <= Len(s)
    /\ \A k \in 1..Len(p) : LowerCh(Ch(s, i + k - 1)) = Ch(p, k)

\* \s* at position i: the length of the whitespace it takes
WsRun(s, i) ==
    LET stops == {j \in i..Len(s) : ~IsSpace(Ch(s, j))}
    IN  IF stops = {}
        THEN IF i <= Len(s) THEN Len(s) - i + 1 ELSE 0
        ELSE Least(stops) - i

\* str.isdigit()
IsDigits(s) == Len(s) > 0 /\ \A i \in 1..Len(s) : IsDigit(Ch(s, i))

\* no match of a regular expression, no result of a parser
NoMatch == [none |-> TRUE]

\* dict[key] = value
Put(dict, key, value) ==
    [k \in DOMAIN dict \cup {key} |-> IF k = key THEN value ELSE dict[k]]

\* [A-Z]{2}-\d{1,2} at the start of s: the number of digits it takes at most
IdDigits(s) ==
    IF Len(s) >= 4 /\ IsUpper(Ch(s, 1)) /\ IsUpper(Ch(s, 2)) /\ Ch(s, 3) = "-"
    THEN Min(DigitRun(s, 4), 2)
    ELSE 0

\* \s*(.+)$ on the rest of a line: what (.+) captures, None without a match.
\* \s* is greedy and gives its last character back when nothing else is left.
AfterSpaces(tail) ==
    IF LStrip(tail) # "" THEN LStrip(tail)
    ELSE IF tail # "" THEN Ch(tail, Len(tail))
    ELSE None

\* ,?\s*(.+)$ on the rest of a line: what (.+) captures, None without a match.
\* ,? gives the comma back when nothing follows it.
AfterComma(rest) ==
    IF HasAt(rest, 1, ",") /\ AfterSpaces(From(rest, 2)) # None
    THEN AfterSpaces(From(rest, 2))
    ELSE AfterSpaces(rest)

(***************************************************************************)
(* ClassifiedControlExtractor (superseded line classifier)                 *)
(***************************************************************************)
\* re.match(r'^([A-Z]{2}-\d{1,2}),?\s*(.+)$', line_text): groups 1 and 2.
\* \d{1,2} takes two digits when it can and gives one back when the line
\* ends after them.
base_control_match(line_text) ==
    LET d == IdDigits(line_text)
        name(n) == AfterComma(From(line_text, 4 + n))
    IN  IF d >= 1 /\ name(d) # None
        THEN [id |-> SubSeq(line_text, 1, 3 + d), name |-> name(d)]
        ELSE IF d = 2 /\ name(1) # None
        THEN [id |-> SubSeq(line_text, 1, 4), name |-> name(1)]
        ELSE NoMatch

\* \d+(?:,\s*\d+)* from position p of s on: where it ends, and the numbers
\* that split(',') and strip() make of it
NumberList(s, p) ==
    LET number(q) == SubSeq(s, q, q + DigitRun(s, q) - 1)
        first == [end |-> p + DigitRun(s, p) - 1, numbers |-> <<number(p)>>]
        more(st) ==
            LET q == st.end + 2 + WsRun(s, st.end + 2)
            IN  IF HasAt(s, st.end + 1, ",") /\ DigitRun(s, q) > 0
                THEN [end |-> q + DigitRun(s, q) - 1,
                      numbers |-> Append(st.numbers, number(q))]
                ELSE st
        commas == Cardinality({i \in 1..Len(s) : Ch(s, i) = ","})
        scan[k \in 0..commas] == IF k = 0 THEN first ELSE more(scan[k - 1])
    IN  scan[commas]

\* _flexible_enhancement_match: the five patterns, tried in order, ignoring
\* case.  The first three and the fifth end with the list (the third allows
\* any whitespace between the words and before the colon); the fourth wants
\* one blank between the words and allows any text after the list.
_flexible_enhancement_match(line_text) ==
    LET l == line_text
        gap == WsRun(l, 8)
        word == 8 + gap
        colon == word + 11 + WsRun(l, word + 11)
        first == colon + 1 + WsRun(l, colon + 1)
        shape ==
            /\ HasAtIgnoreCase(l, 1, "control")
            /\ HasAtIgnoreCase(l, word, "enhancement")
            /\ HasAt(l, colon, ":")
            /\ DigitRun(l, first) > 0
    IN  IF shape /\ (NumberList(l, first).end = Len(l) \/ (gap = 1 /\ HasAt(l, 8, " ")))
        THEN [numbers |-> NumberList(l, first).numbers]
        ELSE NoMatch

known_attributes ==
    <<"Justification to Select",
      "Supplemental Guidance",
      "Parameter Value(s)",
      "Parameter Value",
      "Regulatory/Statutory Reference(s)",
      "Control Extension",
      "Control Extension(s)",
      "Control Extension and Parameter Value(s)">>

\* _extract_attribute_from_line: (attribute_name, content) of the first known
\* attribute the line starts with
_extract_attribute_from_line(line_text) ==
    LET hits == {k \in 1..Len(known_attributes) :
                    StartsWith(line_text, known_attributes[k] \o ":")}
        attr == known_attributes[Least(hits)]
    IN  IF hits = {}
        THEN NoMatch
        ELSE [attr |-> attr, content |-> Strip(From(line_text, Len(attr) + 2))]

\* _extract_formatted_text: a line is dropped when it is empty, a footer or a
\* page number
IsFooter(raw_text) ==
    \/ Strip(raw_text) = ""
    \/ Strip(raw_text) = "Classified Information Overlay"
    \/ IsDigits(Strip(raw_text))
    \/ Strip(raw_text) = "May 9, 2014"

\* _extract_formatted_text: the entry of formatted_text for a line that is kept
Formatted(raw) == [text |-> Strip(raw.text), bold |-> raw.bold]

\* lines 125-129: self.controls[control_id] = {...}
NewControl(control_name, page) ==
    [name |-> control_name, attributes |-> <<>>, page |-> page]

\* lines 120-129: a bold line that matches the base control pattern
OpenBaseControl(self, match, page) ==
    [controls             |-> Put(self.controls, match.id, NewControl(Strip(match.name), page)),
     current_control      |-> match.id,
     current_base_control |-> match.id,
     current_attribute    |-> None]

\* f"{self.current_base_control}({enhancement_num})"
EnhancementId(base, enhancement_num) == base \o "(" \o enhancement_num \o ")"

\* an enhancement header that leaves the cursor on the first listed
\* enhancement
OpenEnhancements_FirstListed(self, numbers, page) ==
    LET base == self.current_base_control
        base_name == IF base \in DOMAIN self.controls THEN self.controls[base].name ELSE ""
        after[k \in 0..Len(numbers)] ==
            IF k = 0
            THEN self.controls
            ELSE Put(after[k - 1], EnhancementId(base, numbers[k]), NewControl(base_name, page))
    IN  [controls             |-> after[Len(numbers)],
         current_control      |-> EnhancementId(base, numbers[1]),
         current_base_control |-> base,
         current_attribute    |-> None]

\* lines 132-144: an enhancement header under a current base control.  Every
\* listed enhancement gets a new record under the name of the base control.
OpenEnhancements(self, numbers, page) ==
    LET base == self.current_base_control
        base_name == IF base \in DOMAIN self.controls THEN self.controls[base].name ELSE ""
        after[k \in 0..Len(numbers)] ==
            IF k = 0
            THEN self.controls
            ELSE Put(after[k - 1], EnhancementId(base, numbers[k]), NewControl(base_name, page))
    IN  [controls             |-> after[Len(numbers)],
         current_control      |-> EnhancementId(base, numbers[Len(numbers)]),
         current_base_control |-> base,
         current_attribute    |-> None]

\* lines 150-157: a line that starts with a known attribute.  The attribute
\* becomes the current one only when the record did not have it yet.
StoreAttribute(self, found) ==
    LET attrs == self.controls[self.current_control].attributes
    IN  IF found.attr \in DOMAIN attrs
        THEN [self EXCEPT !.controls[self.current_control].attributes[found.attr] =
                            @ \o " " \o Strip(found.content)]
        ELSE [self EXCEPT !.controls[self.current_control].attributes =
                            Put(attrs, found.attr, Strip(found.content)),
                          !.current_attribute = found.attr]

\* a classifier that appends a continuation line without the separating blank
AppendLine_NoSpace(self, line_text) ==
    [self EXCEPT !.controls[self.current_control].attributes[self.current_attribute] =
                    @ \o Strip(line_text)]

\* lines 162-163: attrs[self.current_attribute] += " " + line_text.strip()
AppendLine(self, line_text) ==
    [self EXCEPT !.controls[self.current_control].attributes[self.current_attribute] =
                    @ \o " " \o Strip(line_text)]

\* _find_controls_and_attributes: the body of the loop, for one line.  The
\* elif of line 160 belongs to the if of line 147: a line with a colon that
\* starts with no known attribute reaches neither branch.
FindStep(self, line_data, page) ==
    LET line_text == line_data.text
        base_match == base_control_match(line_text)
        enhancement_match == _flexible_enhancement_match(line_text)
        attribute_result == _extract_attribute_from_line(line_text)
    IN  IF ~IsNone(base_match) /\ line_data.bold
        THEN OpenBaseControl(self, base_match, page)
        ELSE IF ~IsNone(enhancement_match)
        THEN IF self.current_base_control # None
             THEN OpenEnhancements(self, enhancement_match.numbers, page)
             ELSE self
        ELSE IF self.current_control # None /\ Contains(line_text, ":")
        THEN IF ~IsNone(attribute_result)
             THEN StoreAttribute(self, attribute_result)
             ELSE self
        ELSE IF /\ self.current_control # None
                /\ self.current_attribute # None
                /\ Strip(line_text) # ""
                /\ IsNone(base_match)
                /\ IsNone(enhancement_match)
                /\ IsNone(attribute_result)
        THEN AppendLine(self, line_text)
        ELSE self

\* _process_page for one line of the page: _extract_formatted_text, then the
\* loop body of _find_controls_and_attributes
ClassifyLine(self, raw, page) ==
    IF IsFooter(raw.text) THEN self ELSE FindStep(self, Formatted(raw), page)

(***************************************************************************)
(* extract_controls_from_pdf (line pipeline of the 2022 overlay)           *)
(***************************************************************************)
\* the optional (?:\(\d+\))? at position i of s: the length it takes
EnhancementRun(s, i) ==
    IF /\ HasAt(s, i, "(")
       /\ DigitRun(s, i + 1) > 0
       /\ HasAt(s, i + 1 + DigitRun(s, i + 1), ")")
    THEN DigitRun(s, i + 1) + 2
    ELSE 0

\* re.match(r'^\([^)]+\)\s*(.+)$', control_name): group 1, None without a match
family_match(control_name) ==
    LET closers == {i \in 1..Len(control_name) : Ch(control_name, i) = ")"}
    IN  IF HasAt(control_name, 1, "(") /\ closers # {} /\ Least(closers) >= 3
        THEN AfterSpaces(From(control_name, Least(closers) + 1))
        ELSE None

\* parse_control_header: (control_id, control_name), or NoMatch
parse_control_header(text) ==
    LET t == Strip(text)
        d == IdDigits(t)
        last == 3 + d + EnhancementRun(t, 4 + d)
        group2 == AfterSpaces(From(t, last + 2))
        control_name == Strip(group2)
    IN  IF d >= 1 /\ HasAt(t, last + 1, ",") /\ group2 # None
        THEN [control_id   |-> SubSeq(t, 1, last),
              control_name |-> IF family_match(control_name) # None
                               THEN family_match(control_name)
                               ELSE control_name]
        ELSE NoMatch

\* lines 114-122: controls[control_id] = {...}
NewSpecification(control_id, control_name) ==
    [control_id      |-> control_id,
     name            |-> control_name,
     selected        |-> TRUE,
     justification   |-> None,
     parameter_value |-> None,
     guidance        |-> None,
     references      |-> None]

\* lines 127-146: a field header sets current_field, and the field when text
\* follows the header on the line
FieldHeader(st, field, content) ==
    [st EXCEPT !.current_field = field,
               !.controls[st.current_control][field] =
                    IF Strip(content) # "" THEN Strip(content) ELSE @]

\* lines 148-154: a line that continues the current field
ContinueField(st, line) ==
    IF IsNone(parse_control_header(line))
    THEN [st EXCEPT !.controls[st.current_control][st.current_field] =
                        IF @ \notin {None, ""} THEN @ \o " " \o line ELSE line]
    ELSE st

\* lines 126-154: a line read while a control is current
FieldStep(st, line) ==
    IF StartsWith(line, "Justification to Select:")
    THEN FieldHeader(st, "justification", From(line, Len("Justification to Select:") + 1))
    ELSE IF StartsWith(line, "Parameter Value:")
    THEN FieldHeader(st, "parameter_value", From(line, Len("Parameter Value:") + 1))
    ELSE IF StartsWith(line, "Guidance:")
    THEN FieldHeader(st, "guidance", From(line, Len("Guidance:") + 1))
    ELSE IF StartsWith(line, "Reference(s):")
    THEN FieldHeader(st, "references", From(line, Len("Reference(s):") + 1))
    ELSE IF StartsWith(line, "Reference:")
    THEN FieldHeader(st, "references", From(line, Len("Reference:") + 1))
    ELSE IF st.current_field # None /\ line # ""
    THEN ContinueField(st, line)
    ELSE st

\* extract_controls_from_pdf: the body of the loop over the lines, for one
\* line of a page of Section 6; nothing is read after the return of line 97
PdfStep(st, raw_text) ==
    LET line == Strip(raw_text)
        control_info == parse_control_header(line)
    IN  IF st.returned
        THEN st
        ELSE IF Contains(line, "7.") /\ Contains(line, "Implementation Considerations")
        THEN [st EXCEPT !.returned = TRUE]
        ELSE IF line = "" \/ line = "Classified System Overlay" \/ IsDigits(line)
        THEN st
        ELSE IF Contains(line, "Attachment 5 to Appendix E")
        THEN st
        ELSE IF line = "09/30/2022"
        THEN st
        ELSE IF ~IsNone(control_info)
        THEN [controls        |-> Put(st.controls, control_info.control_id,
                                      NewSpecification(control_info.control_id,
                                                       control_info.control_name)),
              current_control |-> control_info.control_id,
              current_field   |-> None,
              returned        |-> FALSE]
        ELSE IF st.current_control # None
        THEN FieldStep(st, line)
        ELSE st

(***************************************************************************)
(* The free-text line pipelines over every document (SpecLines)            *)
(***************************************************************************)
\* a document has at most MaxLines lines on at most MaxPages pages
MaxLines == 4

MaxPages == 2

\* the lines of the documents, as the PDF library delivers them: text and
\* whether a span of the line is bold
Lines ==
    {[text |-> "AC-5, Separation of Duties", bold |-> TRUE],
     [text |-> "AC-6, Least Privilege", bold |-> TRUE],
     [text |-> "AC-5 applies", bold |-> FALSE],
     [text |-> "Justification to Select: NSS best practice.", bold |-> FALSE],
     [text |-> "Justification to Select:", bold |-> FALSE],
     [text |-> "Parameter Value: 30 days", bold |-> FALSE],
     [text |-> "Control Enhancement: 1, 2", bold |-> FALSE],
     [text |-> "continues here.", bold |-> FALSE],
     [text |-> "  and more ", bold |-> FALSE],
     [text |-> "Note: see above", bold |-> FALSE],
     [text |-> "12", bold |-> FALSE],
     [text |-> "7. Implementation Considerations", bold |-> FALSE]}

\* the line opens a record of the superseded classifier
OpensControl(raw) ==
    /\ ~IsFooter(raw.text)
    /\ \/ ~IsNone(base_control_match(Strip(raw.text))) /\ raw.bold
       \/ ~IsNone(_flexible_enhancement_match(Strip(raw.text)))

\* the line is a header "X, title" that opens the record X in both pipelines
IsHeaderLine(raw) ==
    /\ OpensControl(raw)
    /\ ~IsNone(base_control_match(Strip(raw.text)))
    /\ ~IsNone(parse_control_header(raw.text))
    /\ parse_control_header(raw.text).control_id = base_control_match(Strip(raw.text)).id

\* the text of a line "Justification to Select: <text>", None for other lines
JustificationText(raw) ==
    IF StartsWith(Strip(raw.text), "Justification to Select:")
    THEN Strip(From(Strip(raw.text), Len("Justification to Select:") + 1))
    ELSE None

\* a plain continuation line: no colon, no identifier, no boilerplate, no
\* section heading
IsPlainLine(raw) ==
    /\ ~IsFooter(raw.text)
    /\ ~Contains(raw.text, ":")
    /\ IsNone(base_control_match(Strip(raw.text)))
    /\ IsNone(parse_control_header(raw.text))
    /\ Strip(raw.text) # "Classified System Overlay"
    /\ Strip(raw.text) # "09/30/2022"
    /\ ~Contains(raw.text, "Attachment 5 to Appendix E")
    /\ ~(Contains(raw.text, "7.") /\ Contains(raw.text, "Implementation Considerations"))

\* what the last lines read amount to: a header for the identifier id read
\* when the stores were `before', then a justification line, then
\* continuation lines, which together spell text
ScenarioAfter(raw) ==
    IF IsHeaderLine(raw)
    THEN [id         |-> base_control_match(Strip(raw.text)).id,
          name       |-> Strip(base_control_match(Strip(raw.text)).name),
          page       |-> page_num,
          classifier |-> classifier.controls,
          section6   |-> section6.controls,
          text       |-> None,
          lines      |-> 0]
    ELSE IF IsNone(scenario)
    THEN NoScenario
    ELSE IF scenario.text = None
    THEN IF JustificationText(raw) \notin {None, ""}
         THEN [scenario EXCEPT !.text = JustificationText(raw)]
         ELSE NoScenario
    ELSE IF IsPlainLine(raw)
    THEN [scenario EXCEPT !.text = @ \o " " \o Strip(raw.text), !.lines = @ + 1]
    ELSE NoScenario

\* one line of the page at hand is read by both line pipelines
ReadLine ==
    /\ pc = "lines"
    /\ lines_read < MaxLines
    /\ \E raw \in Lines :
        /\ classifier' = ClassifyLine(classifier, raw, page_num)
        /\ section6' = PdfStep(section6, raw.text)
        /\ leading' = (leading /\ ~OpensControl(raw))
        /\ scenario' = ScenarioAfter(raw)
    /\ lines_read' = lines_read + 1
    /\ UNCHANGED <<pc, page_num>>
    /\ LinesOnly

\* the loop over the pages goes on to the next page
TurnPage ==
    /\ pc = "lines"
    /\ page_num < MaxPages
    /\ page_num' = page_num + 1
    /\ leading' = TRUE
    /\ UNCHANGED <<pc, classifier, section6, lines_read, scenario>>
    /\ LinesOnly

\* doc.close(); return controls
CloseDocument ==
    /\ pc = "lines"
    /\ pc' = "closed"
    /\ UNCHANGED lineVars
    /\ LinesOnly

InitLines ==
    /\ pc = "lines"
    /\ classifier = NewClassifier
    /\ section6 = NewSection6
    /\ page_num = 1
    /\ lines_read = 0
    /\ leading = TRUE
    /\ scenario = NoScenario
    /\ FnIdle
    /\ TableIdle
    /\ OverlayIdle
    /\ CallIdle

NextLines == ReadLine \/ TurnPage \/ CloseDocument

SpecLines == InitLines /\ [][NextLines]_vars

(***************************************************************************)
(* Properties of the free-text line pipelines (SpecLines)                  *)
(***************************************************************************)
\* the record of the superseded classifier the scenario asks for
ScenarioRecord ==
    [name       |-> scenario.name,
     attributes |-> [a \in {"Justification to Select"} |-> scenario.text],
     page       |-> scenario.page]

\* the record of the 2022 pipeline the scenario asks for
ScenarioSpecification ==
    [NewSpecification(scenario.id, parse_control_header(scenario.id \o ", " \o scenario.name).control_name)
        EXCEPT !.justification = scenario.text]

LineContent(raw) ==
    IF IsNone(_extract_attribute_from_line(Strip(raw.text)))
    THEN Strip(raw.text)
    ELSE _extract_attribute_from_line(Strip(raw.text)).content

\* the step reads the line raw into the superseded classifier
ReadsLine(raw) ==
    /\ pc = "lines"
    /\ lines_read' = lines_read + 1
    /\ classifier' = ClassifyLine(classifier, raw, page_num)

\* C8: a line that is kept by the footer filter and is read on a page before
\* the first identifier of that page, while a record R is open, is added to
\* the text of R.  The lines taken here are the ones the classifier has a
\* place for: R has a current attribute and the line does not start like an
\* identifier.
C8_LeadingLinesJoinOpenRecord ==
    [][\A raw \in Lines :
        (/\ ReadsLine(raw)
         /\ leading
         /\ classifier.current_control # None
         /\ classifier.current_attribute # None
         /\ ~IsFooter(raw.text)
         /\ ~OpensControl(raw)
         /\ IsNone(base_control_match(Strip(raw.text))))
        => LET R == classifier.current_control
               old == classifier.controls[R].attributes
               new == classifier'.controls[R].attributes
           IN  \E a \in DOMAIN new :
                   new[a] = (IF a \in DOMAIN old THEN old[a] \o " " ELSE "") \o LineContent(raw)]_vars

(***************************************************************************)
(* Overlay fragment pipeline: superseded/cnssi_1253_overlay_extractor.py   *)
(*                                                                         *)
(* A text element is [text, x0, y0, page, is_continuation]; x0 is in       *)
(* points, y0 in hundredths of a point.  The key "is_continuation" is      *)
(* absent from an element until line 130 sets it: absent reads as FALSE,   *)
(* as elem.get("is_continuation", False) does.  List indexes are counted   *)
(* from 1 here and from 0 in the source.                                   *)
(***************************************************************************)
\* str.upper(), one character
UpperCh(c) ==
    IF c \in CharsOf(Lower)
    THEN Ch(Upper, CHOOSE i \in 1..Len(Lower) : Ch(Lower, i) = c)
    ELSE c

\* p in s.upper()
InUppercased(s, p) ==
    \E i \in 1..(Len(s) - Len(p) + 1) :
        \A k \in 1..Len(p) : UpperCh(Ch(s, i + k - 1)) = Ch(p, k)

\* a character of \w
IsWordChar(c) == IsUpper(c) \/ c \in CharsOf(Lower) \/ IsDigit(c) \/ c = "_"

\* \(\d+\) at position p of s: the length it takes, 0 when it does not stand there
ParenNumberAt(s, p) ==
    IF p + 2 <= Len(s) /\ Ch(s, p) = "("
    THEN LET e == DigitRun(s, p + 1)
         IN  IF e >= 1 /\ p + 1 + e <= Len(s) /\ Ch(s, p + 1 + e) = ")"
             THEN e + 2
             ELSE 0
    ELSE 0

\* [A-Z]{2}-\d{1,2}\(\d+\) at position i of s: the length it takes, 0 when it
\* does not stand there ("(" has to follow the one or two digits at once)
EnhancementAt(s, i) ==
    IF i + 3 <= Len(s) /\ IsUpper(Ch(s, i)) /\ IsUpper(Ch(s, i + 1)) /\ Ch(s, i + 2) = "-"
    THEN LET d == DigitRun(s, i + 3)
         IN  IF d \in {1, 2} /\ ParenNumberAt(s, i + 3 + d) > 0
             THEN 3 + d + ParenNumberAt(s, i + 3 + d)
             ELSE 0
    ELSE 0

\* \b[A-Z]{2}-\d{1,2}\b(?!\(\d+\)) at position i of s: the length it takes, 0
\* when it does not stand there (\b after a digit asks that no word character
\* follows, so the digits are all the digits there)
BaseControlAt(s, i) ==
    IF /\ i + 3 <= Len(s)
       /\ IsUpper(Ch(s, i)) /\ IsUpper(Ch(s, i + 1)) /\ Ch(s, i + 2) = "-"
       /\ (i = 1 \/ ~IsWordChar(Ch(s, i - 1)))
    THEN LET d == DigitRun(s, i + 3)
             p == i + 3 + d
         IN  IF /\ d \in {1, 2}
                /\ (p > Len(s) \/ ~IsWordChar(Ch(s, p)))
                /\ ParenNumberAt(s, p) = 0
             THEN 3 + d
             ELSE 0
    ELSE 0

\* the least number of a set of positions, 0 when there is none
Leftmost(hits) == IF hits = {} THEN 0 ELSE Least(hits)

\* group(1) of the match of the enhancement pattern at position i, None for i = 0
EnhancementFrom(text, i) ==
    IF i = 0 THEN None ELSE SubSeq(text, i, i + EnhancementAt(text, i) - 1)

\* re.search(r'([A-Z]{2}-\d{1,2}\(\d+\))', text): group(1), None when no match
overlay_enhancement_match(text) ==
    EnhancementFrom(text, Leftmost({i \in 1..Len(text) : EnhancementAt(text, i) > 0}))

\* group(1) of the match of the base pattern at position i, None for i = 0
BaseControlFrom(text, i) ==
    IF i = 0 THEN None ELSE SubSeq(text, i, i + BaseControlAt(text, i) - 1)

\* re.search(r'\b([A-Z]{2}-\d{1,2})\b(?!\(\d+\))', text): group(1), None when no match
overlay_base_control_match(text) ==
    BaseControlFrom(text, Leftmost({i \in 1..Len(text) : BaseControlAt(text, i) > 0}))

\* enhancement_match.group(1) if enhancement_match else base_control_match.group(1)
IdOfMatches(enhancement_id, base_id) ==
    IF enhancement_id # None THEN enhancement_id ELSE base_id

\* the identifier of a text: that of an enhancement first, None when it has none
found_id(text) ==
    IdOfMatches(overlay_enhancement_match(text), overlay_base_control_match(text))

\* round(y0, 1), in tenths of a point (no y0 of the inputs lies halfway)
Round1(y0) == (y0 + 5) \div 10

\* the sort key (round(x["y0"], 1), x["x0"]) of a is less than that of b
KeyLess(a, b) ==
    \/ Round1(a.y0) < Round1(b.y0)
    \/ Round1(a.y0) = Round1(b.y0) /\ a.x0 < b.x0

\* list.sort(key=lambda x: (round(x["y0"], 1), x["x0"])): a stable sort
SortByPosition(elems) ==
    LET n == Len(elems)
        before(i) == {j \in 1..n : \/ KeyLess(elems[j], elems[i])
                                   \/ ~KeyLess(elems[i], elems[j]) /\ j < i}
    IN  [k \in 1..n |-> elems[CHOOSE i \in 1..n : Cardinality(before(i)) = k - 1]]

\* list.index(x): the first position of an element equal to x
IndexOf(elems, x) == Least({i \in 1..Len(elems) : elems[i] = x})

\* list.sort(key=lambda x: sorted_elements.index(x)): a stable sort
SortByIndex(part, sorted_elements) ==
    LET n == Len(part)
        key(i) == IndexOf(sorted_elements, part[i])
        before(i) == {j \in 1..n : key(j) < key(i) \/ (key(j) = key(i) /\ j < i)}
    IN  [k \in 1..n |-> part[CHOOSE i \in 1..n : Cardinality(before(i)) = k - 1]]

\* " ".join([elem["text"] for elem in elems])
JoinTexts(elems) ==
    LET join[k \in 0..Len(elems)] ==
            IF k = 0 THEN ""
            ELSE IF k = 1 THEN elems[1].text
            ELSE join[k - 1] \o " " \o elems[k].text
    IN  join[Len(elems)]

\* s.replace(p, ""): every occurrence of p is taken out, from the left
RemoveAll(s, p) ==
    LET HitsFrom(i) == {j \in i..(Len(s) - Len(p) + 1) : SubSeq(s, j, j + Len(p) - 1) = p}
        most == Cardinality(HitsFrom(1))
        \* [out, at]: the text kept so far and the position to go on from
        cut[k \in 0..most] ==
            IF k = 0 THEN [out |-> "", at |-> 1]
            ELSE LET prev == cut[k - 1]
                 IN  IF HitsFrom(prev.at) = {}
                     THEN prev
                     ELSE LET j == Least(HitsFrom(prev.at))
                          IN  [out |-> prev.out \o SubSeq(s, prev.at, j - 1),
                               at  |-> j + Len(p)]
    IN  IF p = "" THEN s ELSE cut[most].out \o From(s, cut[most].at)

\* _extract_text_elements: the spans of a page with a text, sorted
_extract_text_elements(spans, page_no) ==
    LET inked == SelectSeq(spans, LAMBDA span : Strip(span.text) # "")
        text_elements == [i \in 1..Len(inked) |->
                             [text            |-> Strip(inked[i].text),
                              x0              |-> inked[i].x0,
                              y0              |-> inked[i].y0,
                              page            |-> page_no,
                              is_continuation |-> FALSE]]
    IN  SortByPosition(text_elements)

\* re.match(r'^[A-Z]-\d+$', elem_text)
IsTableLabel(elem_text) ==
    /\ Len(elem_text) >= 3
    /\ IsUpper(Ch(elem_text, 1))
    /\ Ch(elem_text, 2) = "-"
    /\ IsDigits(From(elem_text, 3))

\* the test that keeps an element before the first identifier of a page out
\* of the continuation (lines 113-120)
IsContinuationNoise(elem_text) ==
    \/ Contains(elem_text, "CNSSI No. 1253")
    \/ Contains(elem_text, "Control Text")
    \/ Contains(elem_text, "Defined Value for NSS")
    \/ Contains(elem_text, "Table E-1")
    \/ InUppercased(elem_text, "Appendix")
    \/ IsTableLabel(elem_text)
    \/ IsDigits(elem_text)
    \/ Len(elem_text) < 3

\* the test that keeps an element of a page without identifier out of the
\* open group (lines 160-163)
IsPageNoise(elem_text) ==
    \/ Contains(elem_text, "CNSSI No. 1253")
    \/ Contains(elem_text, "Control Text")
    \/ Contains(elem_text, "Defined Value for NSS")
    \/ Len(elem_text) < 3

\* the test that keeps an element of a group out of both texts (lines 244-248)
IsCaption(elem_text) ==
    \/ Contains(elem_text, "Control Text")
    \/ Contains(elem_text, "Defined Value for NSS")
    \/ Contains(elem_text, "CNSSI No. 1253")
    \/ IsTableLabel(elem_text)

\* is_defined_value (lines 253-260)
is_defined_value(elem_text) ==
    \/ StartsWith(elem_text, "Not appropriate to define")
    \/ StartsWith(elem_text, "At least annually")
    \/ StartsWith(elem_text, "Not to exceed")
    \/ StartsWith(elem_text, "all NSS")
    \/ StartsWith(elem_text, "all organizations operating NSS")
    \/ elem_text \in {"All", "Disables", "3", "15 minutes", "30 minutes"}

\* the elements of a group that make its control_text (lines 241-268)
InControlText(elem) ==
    /\ ~IsCaption(elem.text)
    /\ elem.x0 >= 80
    /\ elem.x0 < 300 /\ ~is_defined_value(elem.text)

\* a defined_value made of the elements with a recognized value text alone
InDefinedValue_PatternOnly(elem) ==
    /\ ~IsCaption(elem.text)
    /\ elem.x0 >= 80
    /\ is_defined_value(elem.text)

\* the elements of a group that make its defined_value (lines 241-270)
InDefinedValue(elem) ==
    /\ ~IsCaption(elem.text)
    /\ elem.x0 >= 80
    /\ ~(elem.x0 < 300 /\ ~is_defined_value(elem.text))

\* what _parse_control_group returns for the identifier and the two texts of a
\* group (lines 231-285)
GroupRecord(control_id, control_text, defined_value) ==
    IF control_id = None
    THEN NoMatch
    ELSE [id            |-> control_id,
          control_text  |-> IF Contains(control_text, control_id)
                            THEN Strip(RemoveAll(control_text, control_id))
                            ELSE control_text,
          defined_value |-> defined_value]

\* _parse_control_group from sorted_elements on (lines 229-285)
ParseSorted(sorted_elements) ==
    GroupRecord(found_id(JoinTexts(sorted_elements)),
                Strip(JoinTexts(SortByIndex(SelectSeq(sorted_elements, InControlText),
                                            sorted_elements))),
                Strip(JoinTexts(SortByIndex(SelectSeq(sorted_elements, InDefinedValue),
                                            sorted_elements))))

\* _parse_control_group: [id, control_text, defined_value] of a group of
\* elements, NoMatch for None
_parse_control_group(elements, last_page) ==
    IF elements = <<>>
    THEN NoMatch
    ELSE ParseSorted(SortByPosition(SelectSeq(elements, LAMBDA elem : ~elem.is_continuation))
                        \o SortByPosition(SelectSeq(elements, LAMBDA elem : elem.is_continuation)))

\* a merge that joins the two texts without a blank
MergeText_NoSpace(existing, incoming) ==
    IF incoming # "" /\ Strip(incoming) # ""
    THEN IF existing # "" THEN Strip(existing \o incoming) ELSE incoming
    ELSE existing

\* the merge of a text of control_data into the stored text (lines 194-204)
MergeText(existing, incoming) ==
    IF incoming # "" /\ Strip(incoming) # ""
    THEN IF existing # "" THEN Strip(existing \o " " \o incoming) ELSE incoming
    ELSE existing

\* control_data is stored: a new record, or each text merged into the record
\* of the identifier (lines 180-204)
MergeControlData(controls, control_data) ==
    IF control_data.id \notin DOMAIN controls
    THEN Put(controls, control_data.id,
             [control_text  |-> control_data.control_text,
              defined_value |-> control_data.defined_value])
    ELSE LET existing == controls[control_data.id]
         IN  Put(controls, control_data.id,
                 [control_text  |-> MergeText(existing.control_text, control_data.control_text),
                  defined_value |-> MergeText(existing.defined_value, control_data.defined_value)])

\* _finalize_current_control has something to finalize (line 172)
HasOpenGroup(self) ==
    self.current_control_id # None /\ self.current_control_elements # <<>>

\* _finalize_current_control from control_data on (lines 180-214)
StoreGroup(self, control_data) ==
    [controls                 |-> IF IsNone(control_data)
                                  THEN self.controls
                                  ELSE MergeControlData(self.controls, control_data),
     current_control_id       |-> None,
     current_control_elements |-> <<>>]

\* a _finalize_current_control that empties the cursor and the buffer and
\* stores nothing
_finalize_current_control_StoresNothing(self, last_page) ==
    IF ~HasOpenGroup(self)
    THEN self
    ELSE StoreGroup(self, NoMatch)

\* _finalize_current_control
_finalize_current_control(self, last_page) ==
    IF ~HasOpenGroup(self)
    THEN self
    ELSE StoreGroup(self, _parse_control_group(self.current_control_elements, last_page))

\* control_ids_found of the identifiers of the elements: [index, control_id] of
\* every element with an identifier
FoundAmong(ids) ==
    LET indexes == SelectSeq([i \in 1..Len(ids) |-> i], LAMBDA i : ids[i] # None)
    IN  [k \in 1..Len(indexes) |-> [index |-> indexes[k], control_id |-> ids[indexes[k]]]]

\* control_ids_found (lines 91-99)
control_ids_found(page_elements) ==
    FoundAmong([i \in 1..Len(page_elements) |-> found_id(page_elements[i].text)])

\* the elements before the first identifier of a page join the open group,
\* marked as continuation (lines 109-132)
TakeContinuation(self, page_elements, found) ==
    IF found # <<>> /\ found[1].index > 1 /\ self.current_control_id # None
    THEN LET continuation_elements == SubSeq(page_elements, 1, found[1].index - 1)
             valid_continuation ==
                 SelectSeq(continuation_elements, LAMBDA elem : ~IsContinuationNoise(elem.text))
         IN  [self EXCEPT !.current_control_elements =
                              @ \o [i \in 1..Len(valid_continuation) |->
                                       [valid_continuation[i] EXCEPT !.is_continuation = TRUE]]]
    ELSE self

\* the open group is finalized when another identifier is met (line 139)
ClosesGroup(self, control_id) ==
    self.current_control_id # None /\ self.current_control_id # control_id

\* the elements from an identifier to the next one join the open group or
\* open a new one (lines 143-154)
OpenGroup(self, control_id, control_elements) ==
    IF self.current_control_id = control_id
    THEN [self EXCEPT !.current_control_elements = @ \o control_elements]
    ELSE [self EXCEPT !.current_control_id = control_id,
                      !.current_control_elements = control_elements]

\* one pass of the loop over control_ids_found (lines 135-154)
ObserveId(self, page_elements, found, k, page_no) ==
    OpenGroup(IF ClosesGroup(self, found[k].control_id)
              THEN _finalize_current_control(self, page_no)
              ELSE self,
              found[k].control_id,
              SubSeq(page_elements,
                     found[k].index,
                     IF k < Len(found) THEN found[k + 1].index - 1 ELSE Len(page_elements)))

\* the extractor after the continuation and the first k identifiers of a page
AfterIds(self, page_elements, found, page_no) ==
    LET after[k \in 0..Len(found)] ==
            IF k = 0
            THEN TakeContinuation(self, page_elements, found)
            ELSE ObserveId(after[k - 1], page_elements, found, k, page_no)
    IN  after

\* the elements of a page without identifier join the open group (lines 157-168)
TakeWholePage(self, page_elements) ==
    LET valid_elements == SelectSeq(page_elements, LAMBDA elem : ~IsPageNoise(elem.text))
    IN  [self EXCEPT !.current_control_elements = @ \o valid_elements]

\* _process_page_elements from control_ids_found on (lines 108-168)
ProcessFound(self, page_elements, found, page_no) ==
    IF found = <<>> /\ self.current_control_id # None
    THEN TakeWholePage(self, page_elements)
    ELSE AfterIds(self, page_elements, found, page_no)[Len(found)]

\* _process_page_elements
_process_page_elements(self, page_elements, page_no) ==
    ProcessFound(self, page_elements, control_ids_found(page_elements), page_no)

\* control_data as a list: empty for None
AsList(control_data) == IF IsNone(control_data) THEN <<>> ELSE <<control_data>>

\* what _parse_control_group returns when self is finalized, as a list
GroupData(self, last_page) ==
    IF HasOpenGroup(self)
    THEN AsList(_parse_control_group(self.current_control_elements, last_page))
    ELSE <<>>

\* what _parse_control_group returns to the calls of _finalize_current_control
\* made in the loop over control_ids_found, in order
LoopFinalizations(after, found, page_no) ==
    LET data[k \in 0..Len(found)] ==
            IF k = 0 THEN <<>>
            ELSE data[k - 1] \o (IF ClosesGroup(after[k - 1], found[k].control_id)
                                 THEN GroupData(after[k - 1], page_no)
                                 ELSE <<>>)
    IN  data[Len(found)]

\* the same from control_ids_found on
FinalizationsFound(self, page_elements, found, page_no) ==
    LoopFinalizations(AfterIds(self, page_elements, found, page_no), found, page_no)

\* what _parse_control_group returns to the calls of _finalize_current_control
\* made while a page is processed, in order
PageFinalizations(self, page_elements, page_no) ==
    FinalizationsFound(self, page_elements, control_ids_found(page_elements), page_no)

\* the record of what was finalized, with the data of further calls
Logged(log, datas) ==
    LET add[k \in 0..Len(datas)] ==
            IF k = 0 THEN log
            ELSE LET id == datas[k].id
                     entry == [control_text  |-> datas[k].control_text,
                               defined_value |-> datas[k].defined_value]
                 IN  Put(add[k - 1], id,
                         (IF id \in DOMAIN add[k - 1] THEN add[k - 1][id] ELSE <<>>) \o <<entry>>)
    IN  add[Len(datas)]

(***************************************************************************)
(* The overlay fragment pipeline over documents of a few pages             *)
(***************************************************************************)
\* the most pages of a document
MaxOverlayPages == 3

\* the x0 of the ID column, of the Control Text column and of the Defined
\* Value column
IdColumnX == 50

TextColumnX == 100

ValueColumnX == 320

Span(text, x0, y0) == [text |-> text, x0 |-> x0, y0 |-> y0]

RunningHead == Span("CNSSI No. 1253", TextColumnX, 3000)

ColumnCaption == Span("Control Text", TextColumnX, 4000)

CarriedText == Span("carried over", TextColumnX, 5000)

CarriedValue == Span("all NSS", ValueColumnX, 5000)

IdAC1 == Span("AC-1", IdColumnX, 10000)

Alpha == Span("Alpha", TextColumnX, 10004)

Gamma == Span("Gamma", ValueColumnX, 10000)

Beta == Span("  Beta ", TextColumnX, 12000)

IdAC2 == Span("AC-2", IdColumnX, 14000)

Annual == Span("At least annually", TextColumnX, 14000)

IdAC2_1 == Span("AC-2(1)", IdColumnX, 16000)

Delta == Span("Delta", TextColumnX, 16000)

PageNumber == Span("12", ValueColumnX, 70000)

LongPageNumber == Span("123", ValueColumnX, 70000)

AppendixLabel == Span("Appendix E", TextColumnX, 3500)

TableCaption == Span("Table E-1", TextColumnX, 3700)

TableLabel == Span("E-12", ValueColumnX, 3700)

\* the pages a document is made of: the spans of a page in the order of its
\* blocks, lines and spans
OverlayPageList ==
    << <<IdAC1, Alpha, Gamma>>,
       <<RunningHead, IdAC1, Beta>>,
       <<IdAC1, Gamma>>,
       <<IdAC2, Annual>>,
       <<RunningHead, ColumnCaption, IdAC2, Delta, PageNumber>>,
       <<IdAC1, Gamma, Alpha, Beta, IdAC2, Annual>>,
       <<RunningHead, CarriedText, CarriedValue, IdAC2, Annual, PageNumber>>,
       <<RunningHead, CarriedValue, CarriedText, PageNumber>>,
       <<IdAC2_1, Delta>>,
       <<PageNumber, RunningHead>>,
       <<RunningHead, AppendixLabel, TableCaption, TableLabel, IdAC2, Annual, LongPageNumber>>,
       <<RunningHead, AppendixLabel, TableCaption, TableLabel, LongPageNumber>> >>

OverlayPages == {OverlayPageList[i] : i \in 1..Len(OverlayPageList)}

\* page_elements of _process_page: the text elements of each page at each
\* place of the document
PageElements ==
    [spans \in OverlayPages, page_no \in 1..MaxOverlayPages |->
        _extract_text_elements(spans, page_no)]

\* _process_page: one page of the document
ProcessOverlayPage ==
    /\ pc = "overlay"
    /\ pages_done < MaxOverlayPages
    /\ \E spans \in OverlayPages :
        LET page_no == pages_done + 1
            page_elements == PageElements[spans, page_no]
        IN  /\ extractor' = _process_page_elements(extractor, page_elements, page_no)
            /\ finalized' = Logged(finalized, PageFinalizations(extractor, page_elements, page_no))
    /\ pages_done' = pages_done + 1
    /\ UNCHANGED pc
    /\ OverlayOnly

\* extract_controls after the last page: the open group is finalized and
\* self.controls is returned
ReturnOverlayControls ==
    /\ pc = "overlay"
    /\ extractor' = IF extractor.current_control_elements # <<>>
                    THEN _finalize_current_control(extractor, pages_done)
                    ELSE extractor
    /\ finalized' = Logged(finalized, GroupData(extractor, pages_done))
    /\ pc' = "overlay_returned"
    /\ UNCHANGED pages_done
    /\ OverlayOnly

InitOverlay ==
    /\ pc = "overlay"
    /\ extractor = NewExtractor
    /\ pages_done = 0
    /\ finalized = <<>>
    /\ FnIdle
    /\ TableIdle
    /\ LinesIdle
    /\ CallIdle

NextOverlay == ProcessOverlayPage \/ ReturnOverlayControls

\* CNSSI1253Extractor.extract_controls over every document
SpecOverlay == InitOverlay /\ [][NextOverlay]_vars

(***************************************************************************)
(* Properties of the overlay fragment pipeline (SpecOverlay)               *)
(***************************************************************************)
TextFields == {"control_text", "defined_value"}

\* the texts finalized for a field of an identifier, in order
FinalizedTexts(id, field) == [k \in 1..Len(finalized[id]) |-> finalized[id][k][field]]

\* the texts that are not empty, joined by single blanks
JoinNonEmpty(texts) ==
    LET join[k \in 0..Len(texts)] ==
            IF k = 0 THEN ""
            ELSE IF texts[k] = "" THEN join[k - 1]
            ELSE IF join[k - 1] = "" THEN texts[k]
            ELSE join[k - 1] \o " " \o texts[k]
    IN  join[Len(texts)]

\* the record of the store after the single fragment with the joined texts
SingleFragmentRecord(id) ==
    MergeControlData(<<>>, [id            |-> id,
                            control_text  |-> JoinNonEmpty(FinalizedTexts(id, "control_text")),
                            defined_value |-> JoinNonEmpty(FinalizedTexts(id, "defined_value"))])[id]

\* C9: in the overlay store, finalizing a group for a stored identifier
\* merges control_text and defined_value each on its own: old + " " + new
\* when both are non-empty, new when old is empty, old when new is empty or
\* whitespace.  So the stored text of a field is the non-empty texts
\* finalized for it joined by single blanks ("A" then "B" gives "A B"), the
\* record is the one the single fragment with the joined texts gives, and a
\* further empty or blank text would leave it as it is.
C9_MergeJoinsFinalizedTexts ==
    /\ DOMAIN extractor.controls = DOMAIN finalized
    /\ \A id \in DOMAIN extractor.controls :
        /\ \A field \in TextFields :
            /\ extractor.controls[id][field] = JoinNonEmpty(FinalizedTexts(id, field))
            /\ MergeText(extractor.controls[id][field], "") = extractor.controls[id][field]
            /\ MergeText(extractor.controls[id][field], " ") = extractor.controls[id][field]
        /\ extractor.controls[id] = SingleFragmentRecord(id)

\* AC-1 was finalized twice, with "Alpha" and "Gamma" and then with "Beta"
\* and no value: its text is "Alpha Beta" and its value is still "Gamma"
C9_Witness ==
    /\ pc = "overlay_returned"
    /\ "AC-1" \in DOMAIN finalized
    /\ finalized["AC-1"] = <<[control_text |-> "Alpha", defined_value |-> "Gamma"],
                             [control_text |-> "Beta", defined_value |-> ""]>>
    /\ extractor.controls["AC-1"] = [control_text |-> "Alpha Beta", defined_value |-> "Gamma"]

(***************************************************************************)
(* Identifier keys and sorting: nist_sorter.py                             *)
(***************************************************************************)
\* the characters of the texts in the order of their code points (the quotes,
\* the backslash and the backtick are left out)
CodeOrder ==
    " !#$%&()*+,-./0123456789:;<=>?@ABCDEFGHIJKLMNOPQRSTUVWXYZ[]^_abcdefghijklmnopqrstuvwxyz{|}~"

\* ord(c) up to a shift: the place of c in CodeOrder ("\n" comes before them all)
CodeRank(c) == IF c = "\n" THEN 0 ELSE CHOOSE i \in 1..Len(CodeOrder) : Ch(CodeOrder, i) = c

\* a < b for str: the first place where they differ decides, a prefix is less
StrLess(a, b) ==
    LET differ == {i \in 1..Min(Len(a), Len(b)) : Ch(a, i) # Ch(b, i)}
    IN  IF differ = {}
        THEN Len(a) < Len(b)
        ELSE CodeRank(Ch(a, Least(differ))) < CodeRank(Ch(b, Least(differ)))

\* int(c) for one digit
DigitValue(c) == (CHOOSE i \in 1..Len(Digits) : Ch(Digits, i) = c) - 1

\* int(s) for a text of digits
ToInt(s) ==
    LET value[k \in 0..Len(s)] ==
            IF k = 0 THEN 0 ELSE 10 * value[k - 1] + DigitValue(Ch(s, k))
    IN  value[Len(s)]

\* the number of capital letters s starts with
UpperRun(s) ==
    LET stops == {j \in 1..Len(s) : ~IsUpper(Ch(s, j))}
    IN  IF stops = {} THEN Len(s) ELSE Least(stops) - 1

\* the groups of [A-Z]{lo,hi}-\d+(\(\d+\))? matched against the whole of s:
\* [family, base, enhancement], enhancement None when group 3 did not take
\* part; NoMatch when s does not match
IdGroupsAt(s, n, d) ==
    IF d >= 1 /\ 1 + n + d = Len(s)
    THEN [family |-> SubSeq(s, 1, n), base |-> SubSeq(s, n + 2, n + 1 + d), enhancement |-> None]
    ELSE IF /\ d >= 1
            /\ ParenNumberAt(s, n + 2 + d) > 0
            /\ n + 1 + d + ParenNumberAt(s, n + 2 + d) = Len(s)
    THEN [family      |-> SubSeq(s, 1, n),
          base        |-> SubSeq(s, n + 2, n + 1 + d),
          enhancement |-> SubSeq(s, n + 3 + d, Len(s) - 1)]
    ELSE NoMatch

\* the same for s from its start to its end
IdGroupsWhole(s, lo, hi) ==
    IF UpperRun(s) >= lo /\ UpperRun(s) <= hi /\ HasAt(s, UpperRun(s) + 1, "-")
    THEN IdGroupsAt(s, UpperRun(s), DigitRun(s, UpperRun(s) + 2))
    ELSE NoMatch

\* re.match(r'^([A-Z]{lo,hi})-(\d+)(?:\((\d+)\))?$', s): "$" also stands
\* before a newline that ends s
IdGroups(s, lo, hi) ==
    IF Len(s) > 0 /\ Ch(s, Len(s)) = "\n"
    THEN IdGroupsWhole(SubSeq(s, 1, Len(s) - 1), lo, hi)
    ELSE IdGroupsWhole(s, lo, hi)

\* the sort key of the groups of a match
KeyOfGroups(groups) ==
    [family             |-> groups.family,
     base_number        |-> ToInt(groups.base),
     enhancement_number |-> IF groups.enhancement # None THEN ToInt(groups.enhancement) ELSE 0]

\* parse_control_id that reads every identifier as a base control
parse_control_id_NoEnhancement(control_id) ==
    IF IsNone(IdGroups(control_id, 2, 3))
    THEN NoMatch
    ELSE [KeyOfGroups(IdGroups(control_id, 2, 3)) EXCEPT !.enhancement_number = 0]

\* parse_control_id: (family, base_number, enhancement_number), NoMatch for
\* raise ValueError
parse_control_id(control_id) ==
    IF IsNone(IdGroups(control_id, 2, 3))
    THEN NoMatch
    ELSE KeyOfGroups(IdGroups(control_id, 2, 3))

\* the key of a control with a malformed identifier (line 66)
MalformedKey == [family |-> "ZZZ", base_number |-> 9999, enhancement_number |-> 9999]

\* the key parse_control_id gave, or the one of the except branch
KeyOrFallback(parsed) == IF IsNone(parsed) THEN MalformedKey ELSE parsed

\* control.get('id', '')
IdOf(control) == IF "id" \in DOMAIN control THEN control.id ELSE ""

\* sort_controls.sort_key
sort_key(control) == KeyOrFallback(parse_control_id(IdOf(control)))

\* a < b for the tuples (family, base_number, enhancement_number)
TupleLess(a, b) ==
    \/ StrLess(a.family, b.family)
    \/ /\ a.family = b.family
       /\ \/ a.base_number < b.base_number
          \/ a.base_number = b.base_number /\ a.enhancement_number < b.enhancement_number

\* sorted(items) by the keys given with them: a stable sort
SortedByKeys(items, keys) ==
    LET n == Len(items)
        before(i) == {j \in 1..n : \/ TupleLess(keys[j], keys[i])
                                   \/ ~TupleLess(keys[i], keys[j]) /\ j < i}
    IN  [k \in 1..n |-> items[CHOOSE i \in 1..n : Cardinality(before(i)) = k - 1]]

\* sort_controls: sorted(controls, key=sort_key)
sort_controls(controls) ==
    SortedByKeys(controls, [i \in 1..Len(controls) |-> sort_key(controls[i])])

(***************************************************************************)
(* sort_controls over lists of controls                                    *)
(***************************************************************************)
\* the most controls of a list, the lists of the five identifiers of the
\* module docstring apart
MaxSortLen == 3

\* the five identifiers of the natural sort, in their order
NaturalFive ==
    << [id |-> "AC-1"], [id |-> "AC-1(1)"], [id |-> "AC-1(10)"], [id |-> "AC-2"], [id |-> "AC-10"] >>

\* the controls the lists are made of: a three-letter family, a number with
\* a leading zero, an identifier that is none of the pattern, a control
\* without "id" and two controls of one identifier
SortControls ==
    {[id |-> "AC-2"], [id |-> "AC-10"], [id |-> "AC-1(10)"], [id |-> "AC-07"],
     [id |-> "PMA-3"], [id |-> "ac-1"], [name |-> "no id"], [id |-> "AC-2", name |-> "again"]}

\* the orders of a list
Orders(items) ==
    {[k \in 1..Len(items) |-> items[f[k]]] :
        f \in {g \in [1..Len(items) -> 1..Len(items)] :
                  \A i, j \in 1..Len(items) : g[i] = g[j] => i = j}}

\* the five identifiers in every order
FiveOrders == Orders(NaturalFive)

SortInputs == SeqsUpTo(SortControls, MaxSortLen) \cup FiveOrders

\* sort_controls is called
SortTheControls ==
    /\ pc = "sort"
    /\ call_result' = sort_controls(call_args)
    /\ pc' = "sorted"
    /\ UNCHANGED call_args
    /\ CallOnly

InitSort ==
    /\ pc = "sort"
    /\ call_args \in SortInputs
    /\ call_result = <<>>
    /\ FnIdle
    /\ TableIdle
    /\ LinesIdle
    /\ OverlayIdle

NextSort == SortTheControls

\* sort_controls over every list
SpecSort == InitSort /\ [][NextSort]_vars

(***************************************************************************)
(* Properties of sort_controls (SpecSort)                                  *)
(***************************************************************************)
\* how often an item stands in a list
CountIn(items, x) == Cardinality({i \in 1..Len(items) : items[i] = x})

\* the identifier of a control is well formed
WellFormed(control) == ~IsNone(IdGroups(IdOf(control), 2, 3))

\* family, base number and enhancement number (0 for a base control) of a
\* well-formed control are in the natural order, or equal
NaturalLeq(a, b) ==
    LET ga == IdGroups(IdOf(a), 2, 3)
        gb == IdGroups(IdOf(b), 2, 3)
        ea == IF ga.enhancement = None THEN 0 ELSE ToInt(ga.enhancement)
        eb == IF gb.enhancement = None THEN 0 ELSE ToInt(gb.enhancement)
    IN  \/ StrLess(ga.family, gb.family)
        \/ /\ ga.family = gb.family
           /\ \/ ToInt(ga.base) < ToInt(gb.base)
              \/ ToInt(ga.base) = ToInt(gb.base) /\ ea <= eb

\* C11: sort_controls returns a permutation of its input in which the
\* controls with well-formed identifiers stand in non-decreasing order of
\* (family, base number, enhancement number with 0 for a base control); the
\* five identifiers AC-1, AC-2, AC-10, AC-1(1), AC-1(10) come out, from any
\* order, as AC-1, AC-1(1), AC-1(10), AC-2, AC-10.
C11_SortIsNaturalPermutation ==
    pc = "sorted" =>
        /\ Len(call_result) = Len(call_args)
        /\ \A i \in 1..Len(call_args) :
               CountIn(call_result, call_args[i]) = CountIn(call_args, call_args[i])
        /\ \A i, j \in 1..Len(call_result) :
               (i < j /\ WellFormed(call_result[i]) /\ WellFormed(call_result[j]))
                   => NaturalLeq(call_result[i], call_result[j])
        /\ call_args \in FiveOrders => call_result = NaturalFive

\* the five identifiers were given in the order of the claim and came out in
\* the natural order
C11_Witness ==
    /\ pc = "sorted"
    /\ call_args = << [id |-> "AC-1"], [id |-> "AC-2"], [id |-> "AC-10"],
                      [id |-> "AC-1(1)"], [id |-> "AC-1(10)"] >>
    /\ call_result = NaturalFive

(***************************************************************************)
(* Merging selections and overlay: cnssi_merger.py                         *)
(***************************************************************************)
\* a dict is the list of its items, in the order of insertion
DictKeys(dict) == {dict[i].key : i \in 1..Len(dict)}

\* extract_control_ids_from_selections(selections_data)
extract_control_ids_from_selections(selections_data) ==
    {selections_data[i].id :
        i \in {k \in 1..Len(selections_data) : "id" \in DOMAIN selections_data[k]}}

\* extract_control_ids_from_overlay(overlay_data)
extract_control_ids_from_overlay(overlay_data) == DictKeys(overlay_data)

\* convert_selection_to_overlay_format(selection_control)
convert_selection_to_overlay_format(selection_control) ==
    [control_text |-> "", defined_value |-> "", selected |-> TRUE]

\* the key of an identifier that does not match
FallbackKey(control_id) ==
    [family |-> control_id, base_number |-> 0, enhancement_number |-> 0]

\* natural_sort_key(control_id): the pattern takes a family of two letters
natural_sort_key(control_id) ==
    IF IsNone(IdGroups(control_id, 2, 2))
    THEN FallbackKey(control_id)
    ELSE KeyOfGroups(IdGroups(control_id, 2, 2))

\* overlay_data[control_id]["selected"] = flag for every control_id of ids
MarkSelected(overlay_data, ids, flag) ==
    [i \in 1..Len(overlay_data) |->
        IF overlay_data[i].key \in ids
        THEN [key   |-> overlay_data[i].key,
              value |-> Put(overlay_data[i].value, "selected", flag)]
        ELSE overlay_data[i]]

\* the orders in which a loop can go through a set
SetOrders(S) ==
    {f \in [1..Cardinality(S) -> S] :
        \A i, j \in 1..Cardinality(S) : f[i] = f[j] => i = j}

\* the controls of the selections only, added in the order of the loop
AddedControls(order) ==
    [i \in 1..Len(order) |->
        [key   |-> order[i],
         value |-> convert_selection_to_overlay_format([id |-> order[i]])]]

\* sorted(all_control_ids, key=natural_sort_key) and the dict built from it
OrderedDict(overlay_data) ==
    SortedByKeys(overlay_data,
                 [i \in 1..Len(overlay_data) |-> natural_sort_key(overlay_data[i].key)])

\* merge_json_files: the mapping it writes, when the loop over the set
\* selections_only_controls goes through it in this order
merge_json_files(selections_data, overlay_data, order) ==
    OrderedDict(
        MarkSelected(
            MarkSelected(overlay_data,
                         extract_control_ids_from_selections(selections_data)
                             \cap extract_control_ids_from_overlay(overlay_data),
                         TRUE),
            extract_control_ids_from_overlay(overlay_data)
                \ extract_control_ids_from_selections(selections_data),
            FALSE)
        \o AddedControls(order))

\* the controls of the selections that the overlay has not
selections_only_controls(selections_data, overlay_data) ==
    extract_control_ids_from_selections(selections_data)
        \ extract_control_ids_from_overlay(overlay_data)

\* the most entries of either file
MaxMergeIds == 2

\* the identifiers of the overlay file
OverlayKeys == {"AC-2", "AC-2(1)", "AC-02", "PMA-2", "PMA-10"}

\* an entry of the overlay file
OverlayEntry == [control_text |-> "The organization:", defined_value |-> ""]

\* the overlay files: dicts of different keys
OverlayFiles ==
    {[i \in 1..Len(keys) |-> [key |-> keys[i], value |-> OverlayEntry]] :
        keys \in {k \in SeqsUpTo(OverlayKeys, MaxMergeIds) :
                     \A i, j \in 1..Len(k) : k[i] = k[j] => i = j}}

\* the controls of the selections file
SelectionControls ==
    {[id |-> "AC-2"], [id |-> "AC-10"], [id |-> "AC-02"], [id |-> "PMA-10"],
     [name |-> "no id"]}

SelectionFiles == SeqsUpTo(SelectionControls, MaxMergeIds)

\* merge_json_files(selections_file, overlay_file, output_file)
MergeFiles ==
    /\ pc = "merge"
    /\ \E order \in SetOrders(selections_only_controls(call_args[1], call_args[2])) :
           call_result' = merge_json_files(call_args[1], call_args[2], order)
    /\ pc' = "merged"
    /\ UNCHANGED call_args
    /\ CallOnly

InitMerge ==
    /\ pc = "merge"
    /\ call_args \in {<<selections, overlay>> :
                         selections \in SelectionFiles, overlay \in OverlayFiles}
    /\ call_result = <<>>
    /\ FnIdle
    /\ TableIdle
    /\ LinesIdle
    /\ OverlayIdle

NextMerge == MergeFiles

\* merge_json_files over every pair of files
SpecMerge == InitMerge /\ [][NextMerge]_vars

(***************************************************************************)
(* Properties of merge_json_files (SpecMerge)                              *)
(***************************************************************************)
\* C12: the keys of the mapping merge_json_files writes stand in the natural
\* order, family, then base number, then enhancement number with 0 for a
\* base control, for identifiers with families of two or three letters.
C12_KeysInNaturalOrder ==
    pc = "merged" =>
        \A i, j \in 1..Len(call_result) :
            (/\ i < j
             /\ WellFormed([id |-> call_result[i].key])
             /\ WellFormed([id |-> call_result[j].key]))
                => NaturalLeq([id |-> call_result[i].key], [id |-> call_result[j].key])

\* the keys PMA-10 and PMA-2 are written in this order
C12_ThreeLetterFamilyOutOfOrder ==
    /\ pc = "merged"
    /\ Len(call_result) = 2
    /\ call_result[1].key = "PMA-10"
    /\ call_result[2].key = "PMA-2"

(***************************************************************************)
(* Identifier matcher: cnssi_1253_selection_extractor.py                   *)
(***************************************************************************)
\* [A-Z]{n} at position p of s
LettersAt(s, p, n) ==
    /\ p >= 1
    /\ p + n - 1 <= Len(s)
    /\ \A k \in 0..(n - 1) : IsUpper(Ch(s, p + k))

\* [A-Z]{n}-\d+(?:\(\d+\))? at position p of s: the length of the match,
\* 0 when it does not stand there
IdLenWith(s, p, n) ==
    IF LettersAt(s, p, n) /\ HasAt(s, p + n, "-") /\ DigitRun(s, p + n + 1) >= 1
    THEN n + 1 + DigitRun(s, p + n + 1)
           + ParenNumberAt(s, p + n + 1 + DigitRun(s, p + n + 1))
    ELSE 0

\* the pattern with families of two letters only
ControlIdLenAt_TwoLetters(s, p) == IdLenWith(s, p, 2)

\* [A-Z]{2,3}-\d+(?:\(\d+\))? at position p of s: three letters are tried
\* first, then two
ControlIdLenAt(s, p) ==
    IF IdLenWith(s, p, 3) > 0 THEN IdLenWith(s, p, 3) ELSE IdLenWith(s, p, 2)

\* re.search of the pattern in text: the position of the leftmost match,
\* 0 when there is none
SearchControlId(text) ==
    LET hits == {p \in 1..Len(text) : ControlIdLenAt(text, p) > 0}
    IN  IF hits = {} THEN 0 ELSE Least(hits)

\* the match of pattern2 is taken at the start of the text or after
\* whitespace
MatchAfterSpace(text, start) ==
    IF start = 0
    THEN None
    ELSE IF start = 1 \/ IsSpace(Ch(text, start - 1))
    THEN SubSeq(text, start, start + ControlIdLenAt(text, start) - 1)
    ELSE None

\* CNSSIParser.extract_control_id(text)
extract_control_id(text) ==
    IF ControlIdLenAt(Strip(text), 1) > 0
    THEN SubSeq(Strip(text), 1, ControlIdLenAt(Strip(text), 1))
    ELSE MatchAfterSpace(text, SearchControlId(text))

\* the most pieces of a text
MaxPieces == 3

\* the pieces texts are made of
TextPieces == {"AC-1", "PMA-12(3)", "AC1", " ", "x", "(", "A", "7", "(2)"}

\* the pieces put together
Concat(pieces) ==
    LET join[k \in 0..Len(pieces)] ==
            IF k = 0 THEN "" ELSE join[k - 1] \o pieces[k]
    IN  join[Len(pieces)]

ExtractTexts == {Concat(pieces) : pieces \in SeqsUpTo(TextPieces, MaxPieces)}

\* extract_control_id(text)
ExtractControlId ==
    /\ pc = "extract"
    /\ call_result' = extract_control_id(call_args)
    /\ pc' = "extracted"
    /\ UNCHANGED call_args
    /\ CallOnly

InitExtract ==
    /\ pc = "extract"
    /\ call_args \in ExtractTexts
    /\ call_result = <<>>
    /\ FnIdle
    /\ TableIdle
    /\ LinesIdle
    /\ OverlayIdle

NextExtract == ExtractControlId

\* extract_control_id over every text
SpecExtract == InitExtract /\ [][NextExtract]_vars

(***************************************************************************)
(* Properties of extract_control_id (SpecExtract)                          *)
(***************************************************************************)
\* two or three capital letters, a hyphen, one or two digits and, optionally,
\* an enhancement number in parentheses: the whole of s
ValidIdentifier(s) ==
    \E n \in 2..3, d \in 1..2 :
        /\ LettersAt(s, 1, n)
        /\ HasAt(s, n + 1, "-")
        /\ DigitRun(s, n + 2) = d
        /\ \/ Len(s) = n + 1 + d
           \/ /\ ParenNumberAt(s, n + 2 + d) > 0
              /\ Len(s) = n + 1 + d + ParenNumberAt(s, n + 2 + d)

\* C13: extract_control_id of a text that is a valid identifier, two or
\* three capital letters, a hyphen, one or two digits and an optional
\* enhancement number in parentheses, is that text.
C13_ValidIdentifierRoundTrips ==
    (pc = "extracted" /\ ValidIdentifier(call_args)) => call_result = call_args

C13_Witness ==
    /\ pc = "extracted"
    /\ call_args = "PMA-12(3)"
    /\ ValidIdentifier(call_args)
    /\ call_result = "PMA-12(3)"

\* a letter or a digit
IsAlnum(c) == IsUpper(c) \/ c \in CharsOf(Lower) \/ IsDigit(c)

\* a text of the identifier grammar begins at position p of text, at the
\* start of the text or after a character that is no letter and no digit
BoundaryIdAt(text, p) ==
    /\ \E n \in 2..3 :
           LettersAt(text, p, n) /\ HasAt(text, p + n, "-") /\ DigitRun(text, p + n + 1) >= 1
    /\ p = 1 \/ ~IsAlnum(Ch(text, p - 1))

\* the first such position, 0 when there is none
FirstBoundaryId(text) ==
    LET hits == {p \in 1..Len(text) : BoundaryIdAt(text, p)}
    IN  IF hits = {} THEN 0 ELSE Least(hits)

\* C14: extract_control_id returns the first part of the text that matches
\* the identifier grammar at a token boundary, the start of the text or a
\* place not after a letter or digit, and none only when there is no such
\* part; what it returns has the hyphen.
C14_ReturnsFirstBoundaryMatch ==
    pc = "extracted" =>
        /\ IF FirstBoundaryId(call_args) = 0
           THEN call_result = None
           ELSE /\ call_result # None
                /\ HasAt(call_args, FirstBoundaryId(call_args), call_result)
        /\ call_result # None => Contains(call_result, "-")

\* what extract_control_id returns is an identifier with its hyphen
C14_NoHyphenNoMatch ==
    (pc = "extracted" /\ call_result # None) =>
        /\ ControlIdLenAt(call_result, 1) = Len(call_result)
        /\ Contains(call_args, call_result)

(***************************************************************************)
(* parse_control_row over rows of any width                                *)
(***************************************************************************)
\* what a cell at the start of a row holds
LeadCells == {"", " AC-3(1) ", "PM-1", "PMA-3", "AC3", "AC-3 x"}

\* the rows: the first five cells from LeadCells, at most two of them with
\* text, a title and a mark after them, from one cell short of a data row up
\* to the widest table
CellRows ==
    {[i \in 1..w |->
        IF i <= 5 THEN lead[i]
        ELSE IF i = 6 THEN "Access Enforcement"
        ELSE IF i = 8 THEN "X"
        ELSE ""] :
        w \in (MinRowCells - 1)..(MinRowCells + ExtraCols),
        lead \in {l \in [1..5 -> LeadCells] :
                     Cardinality({i \in 1..5 : l[i] # ""}) <= 2}}

\* parse_control_row(row, structure) of the row at hand
ParseCells ==
    /\ pc = "cells"
    /\ result' = parse_control_row(row, structure)
    /\ pc' = "parsed"
    /\ UNCHANGED <<header_rows, structure, row>>
    /\ FnOnly

InitCells ==
    /\ pc = "cells"
    /\ header_rows = <<>>
    /\ structure = NoStructure
    /\ row \in CellRows
    /\ result = NoRecord
    /\ TableIdle
    /\ LinesIdle
    /\ OverlayIdle
    /\ CallIdle

NextCells == ParseCells

\* parse_control_row over every row
SpecCells == InitCells /\ [][NextCells]_vars

(***************************************************************************)
(* Properties of parse_control_row (SpecCells)                             *)
(***************************************************************************)
\* the columns among the first four whose stripped cell is, as a whole, an
\* identifier with a family of lo to hi letters
GrammarColumns(lo, hi) ==
    {i \in 0..(Min(4, Len(row)) - 1) : ~IsNone(IdGroups(Strip(Cell(row, i)), lo, hi))}

\* a record comes out exactly of the rows of at least 10 cells with such a
\* column, and its control_id is the first such cell, stripped
RecordIffIdentifier(lo, hi) ==
    pc = "parsed" =>
        /\ ~IsNone(result) <=> (Len(row) >= 10 /\ GrammarColumns(lo, hi) # {})
        /\ ~IsNone(result) =>
               /\ GrammarColumns(lo, hi) # {}
               /\ result.control_id = Strip(Cell(row, Least(GrammarColumns(lo, hi))))

\* C15: parse_control_row returns a record if and only if the row has at
\* least 10 cells and one of its first four cells, stripped, is as a whole an
\* identifier with a family of two or three letters; the control_id is the
\* first such cell, and every other row gives no record.
C15_RecordIffIdentifierInFirstFour == RecordIffIdentifier(2, 3)

\* the same with families of two letters only
C15_RecordIffTwoLetterIdentifier == RecordIffIdentifier(2, 2)

\* a row of 10 cells that begins with PMA-3 gives no record
C15_ThreeLetterRowRejected ==
    /\ pc = "parsed"
    /\ Len(row) = 10
    /\ Cell(row, 0) = "PMA-3"
    /\ IsNone(result)

(***************************************************************************)
(* Continuation tables (SpecTable)                                         *)
(***************************************************************************)
\* the page loop has read this page in the step
ReadsPage(tables) ==
    /\ pc = "pages"
    /\ pc' = "pages"
    /\ all_controls' = StoreControls(all_controls, PageControls(tables, prev_structure))
    /\ prev_structure' = PageStructure(tables, prev_structure)

\* the records of a page when every table is read against the structure of
\* the last table with header rows before it, on this page or an earlier one
CachedPageControls(tables, prev) ==
    LET upto[k \in 0..Len(tables)] ==
            IF k = 0 THEN <<>>
            ELSE upto[k - 1]
                   \o ControlsOf[tables[k]][PageStructure(SubSeq(tables, 1, k - 1), prev)]
    IN  upto[Len(tables)]

\* the page has continuation tables only
AllShort(tables) == \A k \in 1..Len(tables) : IsShortTable(TableList[tables[k]])

\* C16: a table of fewer than 4 rows that holds an identifier is parsed with
\* the cached structure of the last table that had header rows, whether that
\* table stood on the previous page, several pages earlier or earlier on the
\* same page; a page of continuation tables leaves the cached structure as
\* it was.
C16_ContinuationUsesCachedStructure ==
    [][\A tables \in Pages :
        ReadsPage(tables) =>
            /\ all_controls' = StoreControls(all_controls,
                                             CachedPageControls(tables, prev_structure))
            /\ AllShort(tables) => prev_structure' = prev_structure]_vars

\* the same for the pages on which no continuation table follows a table
\* with header rows
C16_ContinuationAcrossPages ==
    [][\A tables \in Pages :
        (/\ ReadsPage(tables)
         /\ \A j, k \in 1..Len(tables) :
                (j < k /\ ~IsShortTable(TableList[tables[j]]))
                    => ~IsShortTable(TableList[tables[k]]))
        => /\ all_controls' = StoreControls(all_controls,
                                            CachedPageControls(tables, prev_structure))
           /\ AllShort(tables) => prev_structure' = prev_structure]_vars

(***************************************************************************)
(* The table pipeline with pages that raise                                *)
(***************************************************************************)
\* one pass of the page loop over a page on which page.get_text(),
\* page.find_tables() or table.extract() raises: neither the loop nor
\* extract_controls_from_page nor main has a handler, so the exception leaves
\* extract_cnssi_1253_2022 and nothing is returned
PageRaises ==
    /\ pc = "pages"
    /\ pc' = "raised"
    /\ UNCHANGED tableVars
    /\ TableOnly

NextTableFaults == ProcessPage \/ SkipPage \/ ReturnControls \/ PageRaises

\* extract_cnssi_1253_2022 over every sequence of pages, pages that raise
\* among them
SpecTableFaults == InitTable /\ [][NextTableFaults]_vars

\* C17: an error raised while a page is processed is caught where it
\* arises: it does not end the run, the pages after it are processed and the
\* records of the pages before it are in the mapping that is returned.
C17_PageErrorDoesNotEndRun ==
    [][pc = "pages" => (pc' = "pages" \/ (pc' = "returned" /\ all_controls' = all_controls))]_vars

\* the run has ended with an exception after records were stored
C17_RunEndedWithRecords == pc = "raised" /\ DOMAIN all_controls # {}

(***************************************************************************)
(* Ranges of the level tokens (SpecStructure)                              *)
(***************************************************************************)
\* the columns of a header row that hold a token L, M or H, left to right
TokenCols(cells) ==
    LET isToken(c) == Strip(Cell(cells, c)) \in {"L", "M", "H"}
    IN  SelectSeq(Columns(cells), isToken)

\* the range of the k-th token of the row: under the key of its group, C for
\* the first three tokens, I for the next three, A for the three after them,
\* and of the level it names, from its column to the column before the next
\* token, two columns further for the last token of the row
TokenRange(cells, cols, k) ==
    [name  |-> <<"C", "I", "A">>[((k - 1) \div 3) + 1] \o "-" \o Strip(Cell(cells, cols[k])),
     start |-> cols[k],
     end   |-> IF k < Len(cols) THEN cols[k + 1] - 1 ELSE cols[k] + 2]

\* the ranges of the tokens that are given one: the first nine
TokenRanges(cells, cols) ==
    [k \in 1..Min(9, Len(cols)) |-> TokenRange(cells, cols, k)]

ExpectedRanges == TokenRanges(header_rows[3], TokenCols(header_rows[3]))

\* the ranges of the structure, as a set
RangeSet == {structure.ranges[i] : i \in 1..Len(structure.ranges)}

\* C18: each of the first nine L/M/H tokens of the third header row has, in
\* the structure, the range of its group, C, I or A by its place, and level,
\* from its column to the column before the next token, or two columns
\* further for the last token; later tokens have no range, and fewer than
\* nine tokens give the ranges of the tokens found.
C18_EveryTokenHasItsRange ==
    pc = "rows" =>
        LET expected == ExpectedRanges
        IN  /\ \A k \in 1..Len(expected) : expected[k] \in RangeSet
            /\ \A r \in RangeSet : \E k \in 1..Len(expected) : r = expected[k]

\* the ranges that are the last of their key
LastOfKey(expected) ==
    {expected[k] : k \in {i \in 1..Len(expected) :
                             \A j \in 1..Len(expected) :
                                 expected[j].name = expected[i].name => j <= i}}

\* C18, amended: the structure holds, for each of the first nine tokens, a
\* range under the key of its group and level, and no other range; the range
\* of a key is that of the last token with this key, so every token has its
\* own range when no level is named twice within a group of three tokens.
C18_RangeOfLastTokenPerKey ==
    pc = "rows" =>
        LET expected == ExpectedRanges
            last == LastOfKey(expected)
        IN  /\ RangeSet = last
            /\ Cardinality(last) = Len(structure.ranges)
            /\ Cardinality(last) = Len(expected) => structure.ranges = expected

\* ten tokens L M H L M H L M H L: nine ranges, the ninth up to the column
\* before the tenth token
C18_Witness ==
    /\ pc = "rows"
    /\ Len(TokenCols(header_rows[3])) = 10
    /\ Len(structure.ranges) = 9
    /\ structure.ranges = ExpectedRanges
    /\ structure.ranges[9].name = "A-H"
    /\ structure.ranges[9].end = TokenCols(header_rows[3])[10] - 1
    /\ \E k \in 1..8 : structure.ranges[k].end > structure.ranges[k].start

(***************************************************************************)
(* Attribute labels and continuation lines (SpecLines)                     *)
(***************************************************************************)
\* the line is kept and starts with a known attribute label
IsLabelLine(raw) ==
    /\ ~IsFooter(raw.text)
    /\ ~OpensControl(raw)
    /\ ~IsNone(_extract_attribute_from_line(Strip(raw.text)))

\* C19: after a line that starts with a known attribute label L is read
\* while a record is open, L is the current attribute, also when the record
\* had L already and another label was read in between.
C19_LabelBecomesCurrentAttribute ==
    [][\A raw \in Lines :
        (/\ ReadsLine(raw)
         /\ classifier.current_control # None
         /\ IsLabelLine(raw))
        => classifier'.current_attribute = _extract_attribute_from_line(Strip(raw.text)).attr]_vars

\* the same for a label the open record does not have yet
C19_NewLabelBecomesCurrentAttribute ==
    [][\A raw \in Lines :
        (/\ ReadsLine(raw)
         /\ classifier.current_control # None
         /\ IsLabelLine(raw)
         /\ _extract_attribute_from_line(Strip(raw.text)).attr
                \notin DOMAIN classifier.controls[classifier.current_control].attributes)
        => classifier'.current_attribute = _extract_attribute_from_line(Strip(raw.text)).attr]_vars

\* the record has Justification to Select, another label was read after it,
\* Justification to Select was read again and is not the current attribute
C19_RepeatedLabelNotCurrent ==
    /\ classifier.current_control = "AC-5"
    /\ classifier.current_attribute = "Parameter Value"
    /\ "AC-5" \in DOMAIN classifier.controls
    /\ "Justification to Select" \in DOMAIN classifier.controls["AC-5"].attributes
    /\ classifier.controls["AC-5"].attributes["Justification to Select"] = "NSS best practice. "

\* a kept line that is no identifier line, no enhancement header and no
\* known attribute label
IsOtherLine(raw) ==
    /\ ~IsFooter(raw.text)
    /\ IsNone(base_control_match(Strip(raw.text)))
    /\ IsNone(_flexible_enhancement_match(Strip(raw.text)))
    /\ IsNone(_extract_attribute_from_line(Strip(raw.text)))

\* the step leaves the text of the current attribute with the line added
\* after one space, and everything else of the classifier as it was
AppendsToCurrent(raw) ==
    classifier' =
        [classifier EXCEPT
            !.controls[classifier.current_control].attributes[classifier.current_attribute] =
                @ \o " " \o Strip(raw.text)]

\* C20: a kept line that is read while a record and an attribute are current
\* and that is no identifier line, no enhancement header and no known
\* attribute label is added to the text of the current attribute after one
\* space, also a line with a colon before which no known label stands.
C20_OtherLinesAreAppended ==
    [][\A raw \in Lines :
        (/\ ReadsLine(raw)
         /\ classifier.current_control # None
         /\ classifier.current_attribute # None
         /\ IsOtherLine(raw))
        => AppendsToCurrent(raw)]_vars

\* the same for the lines without a colon
C20_LinesWithoutColonAreAppended ==
    [][\A raw \in Lines :
        (/\ ReadsLine(raw)
         /\ classifier.current_control # None
         /\ classifier.current_attribute # None
         /\ IsOtherLine(raw)
         /\ ~Contains(raw.text, ":"))
        => AppendsToCurrent(raw)]_vars

(***************************************************************************)
(* Enhancement headers (SpecLines)                                         *)
(***************************************************************************)
\* the line is kept and is an enhancement header, "Control Enhancement: n, .."
IsEnhancementLine(raw) ==
    /\ ~IsFooter(raw.text)
    /\ ~(~IsNone(base_control_match(Strip(raw.text))) /\ raw.bold)
    /\ ~IsNone(_flexible_enhancement_match(Strip(raw.text)))

\* the enhancement headers among the lines of the documents
EnhancementLines == {raw \in Lines : IsEnhancementLine(raw)}

\* the lines that open a record
OpeningLines == {raw \in Lines : OpensControl(raw)}

\* the numbers the headers list
ListedNumbers == [raw \in EnhancementLines |-> _flexible_enhancement_match(Strip(raw.text)).numbers]

\* the step changes at most the record under the cursor
ChangesCurrentOnly ==
    /\ classifier'.current_control = classifier.current_control
    /\ DOMAIN classifier'.controls = DOMAIN classifier.controls
    /\ \A id \in DOMAIN classifier.controls \ {classifier.current_control} :
           classifier'.controls[id] = classifier.controls[id]

\* C21: an enhancement header read while a base control B is current gives
\* every listed B(n) a record with the name of B and no attributes, leaves
\* the cursor on the last listed enhancement and clears the current
\* attribute; the lines that follow, up to the next line that opens a
\* record, change the record under the cursor only, so the enhancements
\* listed before the last keep empty attributes.  Read while no base control
\* is current, the header changes nothing.
C21_EnhancementHeaderOpensListed ==
    [][(pc = "lines" /\ lines_read' = lines_read + 1) =>
        /\ \A raw \in EnhancementLines :
               ReadsLine(raw) =>
                   IF classifier.current_base_control = None
                   THEN classifier' = classifier
                   ELSE LET B == classifier.current_base_control
                            numbers == ListedNumbers[raw]
                            listed == {B \o "(" \o numbers[k] \o ")" : k \in 1..Len(numbers)}
                        IN  /\ DOMAIN classifier'.controls = DOMAIN classifier.controls \cup listed
                            /\ \A id \in listed :
                                   classifier'.controls[id] =
                                       [name       |-> classifier.controls[B].name,
                                        attributes |-> <<>>,
                                        page       |-> page_num]
                            /\ \A id \in DOMAIN classifier.controls \ listed :
                                   classifier'.controls[id] = classifier.controls[id]
                            /\ classifier'.current_control =
                                   B \o "(" \o numbers[Len(numbers)] \o ")"
                            /\ classifier'.current_base_control = B
                            /\ classifier'.current_attribute = None
        /\ \/ ChangesCurrentOnly
           \/ \E raw \in OpeningLines : ReadsLine(raw)]_vars

\* AC-5, then Control Enhancement: 1, 2, then a justification line and a
\* continuation line: the text is on AC-5(2), AC-5(1) has no attributes
C21_Witness ==
    /\ DOMAIN classifier.controls = {"AC-5", "AC-5(1)", "AC-5(2)"}
    /\ classifier.current_control = "AC-5(2)"
    /\ classifier.current_base_control = "AC-5"
    /\ classifier.controls["AC-5(1)"] =
           [name |-> "Separation of Duties", attributes |-> <<>>, page |-> 1]
    /\ classifier.controls["AC-5"].attributes = <<>>
    /\ DOMAIN classifier.controls["AC-5(2)"].attributes = {"Justification to Select"}
    /\ classifier.controls["AC-5(2)"].attributes["Justification to Select"]
           = "NSS best practice. continues here."

\* C22: an enhancement header that lists an enhancement which has a record
\* already leaves the attributes of that record as they were.
C22_ListedAgainKeepsAttributes ==
    [][\A raw \in EnhancementLines :
        (ReadsLine(raw) /\ classifier.current_base_control # None) =>
            \A k \in 1..Len(ListedNumbers[raw]) :
                LET id == classifier.current_base_control \o "(" \o ListedNumbers[raw][k] \o ")"
                IN  id \in DOMAIN classifier.controls =>
                        classifier'.controls[id].attributes = classifier.controls[id].attributes]_vars

(***************************************************************************)
(* Reading order of a finalized group (SpecOverlay)                        *)
(***************************************************************************)
\* a comes before b in reading: on an earlier page, or on the same page
\* higher up, or on the same line further left
ReadsBefore(a, b) == a.page < b.page \/ (a.page = b.page /\ KeyLess(a, b))

\* the elements in reading order; elements at the same place keep their order
SortByReading(elems) ==
    LET n == Len(elems)
        before(i) == {j \in 1..n : \/ ReadsBefore(elems[j], elems[i])
                                   \/ ~ReadsBefore(elems[i], elems[j]) /\ j < i}
    IN  [k \in 1..n |-> elems[CHOOSE i \in 1..n : Cardinality(before(i)) = k - 1]]

\* the data of the open group with its elements taken in reading order
ReadingOrderData(self) ==
    IF HasOpenGroup(self)
    THEN AsList(ParseSorted(SortByReading(self.current_control_elements)))
    ELSE <<>>

\* C23: the group finalized at the end of the document gives the two texts
\* with the accepted fragments in reading order: those of an earlier page
\* before those of a later page, and within a page from the top down and
\* from left to right, also when the later page has no identifier and when
\* it begins with continuation fragments.
C23_FinalizedInReadingOrder ==
    [][pc' = "overlay_returned" =>
          finalized' = Logged(finalized, ReadingOrderData(extractor))]_vars

(***************************************************************************)
(* Page furniture among the fragments that continue a record (SpecOverlay) *)
(***************************************************************************)
\* the elements of a page that join the record open when the page begins:
\* those kept of the elements before the first identifier (lines 109-132),
\* or those kept of a page without identifier (lines 157-168)
JoinedFound(self, page_elements, found) ==
    IF self.current_control_id = None
    THEN <<>>
    ELSE LET after == IF found = <<>>
                      THEN TakeWholePage(self, page_elements)
                      ELSE TakeContinuation(self, page_elements, found)
         IN  SubSeq(after.current_control_elements,
                    Len(self.current_control_elements) + 1,
                    Len(after.current_control_elements))

JoinedElements(self, page_elements) ==
    JoinedFound(self, page_elements, control_ids_found(page_elements))

\* an element of a group is given to one of the two texts of its record
Contributes(elem) == InControlText(elem) \/ InDefinedValue(elem)

\* a pure page number, the title of the document, a caption of the table, a
\* label of a table or of an appendix, or a text of less than 3 characters
IsPageFurniture(elem_text) ==
    \/ IsDigits(elem_text)
    \/ Contains(elem_text, "CNSSI No. 1253")
    \/ Contains(elem_text, "Control Text")
    \/ Contains(elem_text, "Defined Value for NSS")
    \/ Contains(elem_text, "Table E-1")
    \/ InUppercased(elem_text, "APPENDIX")
    \/ IsTableLabel(elem_text)
    \/ Len(elem_text) < 3

\* the elements of each page that join each record open before it and are
\* given to one of its texts
JoinedAndContributing(self, page_elements) ==
    SelectSeq(JoinedElements(self, page_elements), Contributes)

\* C24: whichever page comes next, no fragment of it that is a page number,
\* the title of the document, a caption, a label of a table or of an
\* appendix, or shorter than 3 characters joins the open record and is given
\* to one of its texts: neither from before the first identifier of the page
\* nor from a page without identifier.
C24_FurnitureNeverContributes ==
    (pc = "overlay" /\ pages_done < MaxOverlayPages) =>
        \A spans \in OverlayPages :
            LET joined == JoinedAndContributing(extractor, PageElements[spans, pages_done + 1])
            IN  \A i \in 1..Len(joined) : ~IsPageFurniture(joined[i].text)

\* the same for the fragments before the first identifier of a page and all
\* furniture but the labels of an appendix
C24_ContinuationFurnitureButAppendix ==
    (pc = "overlay" /\ pages_done < MaxOverlayPages) =>
        \A spans \in OverlayPages :
            LET page_elements == PageElements[spans, pages_done + 1]
                joined == JoinedAndContributing(extractor, page_elements)
            IN  control_ids_found(page_elements) # <<>> =>
                    \A i \in 1..Len(joined) :
                        IsPageFurniture(joined[i].text) =>
                            InUppercased(joined[i].text, "APPENDIX")

(***************************************************************************)
(* The two texts of a group by the place of its fragments (SpecOverlay)    *)
(***************************************************************************)
\* the x0 from which a fragment belongs to the Defined Value column
ColumnBoundary == 300

\* the x0 below which a fragment belongs to neither column
LeftMargin == 80

\* the elements of the open group as _parse_control_group orders them
OpenSorted ==
    SortByPosition(SelectSeq(extractor.current_control_elements,
                             LAMBDA elem : ~elem.is_continuation))
        \o SortByPosition(SelectSeq(extractor.current_control_elements,
                                    LAMBDA elem : elem.is_continuation))

\* the bucket the rule gives a fragment that is no caption
BucketOf(elem) ==
    IF is_defined_value(elem.text) THEN "defined_value"
    ELSE IF elem.x0 < ColumnBoundary THEN "control_text"
    ELSE "defined_value"

\* control_text of a group whose control_text_elements are elems
ControlTextOf(elems, control_id) ==
    LET control_text == Strip(JoinTexts(elems))
    IN  IF Contains(control_text, control_id)
        THEN Strip(RemoveAll(control_text, control_id))
        ELSE control_text

\* the two texts of data are made of the fragments of sorted chosen by keep,
\* each in its bucket, in the order of sorted
TextsByBucket(keep(_), sorted, data) ==
    /\ ~IsNone(data)
    /\ data.control_text =
           ControlTextOf(SelectSeq(sorted, LAMBDA elem : keep(elem) /\ BucketOf(elem) = "control_text"),
                         data.id)
    /\ data.defined_value =
           Strip(JoinTexts(SelectSeq(sorted, LAMBDA elem : keep(elem) /\ BucketOf(elem) = "defined_value")))
    /\ \A i \in 1..Len(sorted) :
           keep(sorted[i]) =>
               /\ InControlText(sorted[i]) <=> BucketOf(sorted[i]) = "control_text"
               /\ InDefinedValue(sorted[i]) <=> BucketOf(sorted[i]) = "defined_value"

\* a fragment to the left of the margin is put into neither bucket
MarginLeftOut(sorted) ==
    \A i \in 1..Len(sorted) :
        sorted[i].x0 < LeftMargin => ~InControlText(sorted[i]) /\ ~InDefinedValue(sorted[i])

\* C25 as stated: every fragment of a group that is no caption is put into a
\* bucket: into defined_value when its text is a recognized value text,
\* else into control_text when its x0 is below 300 and into defined_value
\* otherwise.
C25_EveryFragmentBucketed ==
    HasOpenGroup(extractor) =>
        TextsByBucket(LAMBDA elem : ~IsCaption(elem.text),
                      OpenSorted,
                      _parse_control_group(extractor.current_control_elements, pages_done))

\* C25: every fragment of a group that is no caption and whose x0 is at
\* least 80 is put into a bucket: into defined_value when its text is a
\* recognized value text, else into control_text when its x0 is below 300
\* and into defined_value otherwise; a fragment whose x0 is below 80 is put
\* into neither.
C25_FragmentsRightOfMarginBucketed ==
    HasOpenGroup(extractor) =>
        /\ TextsByBucket(LAMBDA elem : ~IsCaption(elem.text) /\ elem.x0 >= LeftMargin,
                         OpenSorted,
                         _parse_control_group(extractor.current_control_elements, pages_done))
        /\ MarginLeftOut(OpenSorted)

\* AC-2 is open with "carried over" to the left of the boundary, "all NSS"
\* to the right of it and "At least annually", a value text, to the left
C25_Witness ==
    /\ extractor.current_control_id = "AC-2"
    /\ LET texts == {<<elem.text, elem.x0 < ColumnBoundary>> :
                        elem \in {extractor.current_control_elements[i] :
                                     i \in 1..Len(extractor.current_control_elements)}}
       IN  {<<"At least annually", TRUE>>, <<"carried over", TRUE>>, <<"Delta", TRUE>>,
            <<"all NSS", FALSE>>} \subseteq texts
    /\ \E i \in 1..Len(extractor.current_control_elements) :
           extractor.current_control_elements[i].x0 < LeftMargin
    /\ _parse_control_group(extractor.current_control_elements, pages_done)
           = [id |-> "AC-2", control_text |-> "Delta carried over",
              defined_value |-> "At least annually 12 12 all NSS"]

(***************************************************************************)
(* The pre-authored records of SC-18(2) and SC-18(3) (SpecTable)           *)
(***************************************************************************)
\* the tables of the document that have a row with the text SC-18(2) in one
\* of its first three cells
NamesSC18 ==
    {i \in Tables :
        \E k \in 1..Len(TableList[i]) :
            \E c \in 1..Min(3, Len(TableList[i][k])) :
                Contains(TableList[i][k][c], "SC-18(2)")}

\* the continuation tables of the document: fewer than 4 rows and an
\* identifier in one of the first three cells of a row
ContinuationTables ==
    {i \in Tables : Len(TableList[i]) < 4 /\ has_control(TableList[i])}

\* the records are the two pre-authored ones: SC-18(2) and SC-18(3), both
\* selected, with integrity low, moderate and high alone
ArePreAuthored(controls) ==
    /\ Len(controls) = 2
    /\ controls[1].control_id = "SC-18(2)"
    /\ controls[1].title = "Acquisition, Development, and Use"
    /\ controls[2].control_id = "SC-18(3)"
    /\ controls[2].title = "Prevent Downloading and Execution"
    /\ \A k \in 1..2 :
        /\ controls[k].selected
        /\ controls[k].justification = "NSS Best Practice"
        /\ \A level \in {"low", "moderate", "high"} :
            /\ controls[k].selections.integrity[level]
            /\ ~controls[k].selections.confidentiality[level]
            /\ ~controls[k].selections.availability[level]

\* the records of the rows of a table that make a record under a structure
RowRecords(rows, struct) ==
    {parse_control_row(rows[k], struct) : k \in 1..Len(rows)} \ {NoMatch}

\* the members of a list of records
RecordSet(controls) == {controls[k] : k \in 1..Len(controls)}

\* C26: once a structure is cached, a continuation table with the text
\* SC-18(2) in one of the first three cells of a row gives exactly the two
\* pre-authored records of SC-18(2) and SC-18(3) and none parsed from its
\* rows; every other table gives records parsed from its rows alone: under
\* the cached structure for a continuation table, under its own structure
\* for the rows after the header rows of a table of 4 rows or more.
C26_OnlySC18IsPreAuthored ==
    (pc = "pages" /\ ~IsNone(prev_structure)) =>
        \A i \in Tables :
            LET controls == ControlsOf[i][prev_structure]
            IN  IF i \in ContinuationTables \cap NamesSC18
                THEN ArePreAuthored(controls)
                ELSE /\ ~ArePreAuthored(controls)
                     /\ RecordSet(controls) =
                            IF i \in ContinuationTables
                            THEN RowRecords(TableList[i], prev_structure)
                            ELSE IF Len(TableList[i]) < 4 THEN {}
                            ELSE RowRecords(SubSeq(TableList[i], 4, Len(TableList[i])),
                                            detect_table_structure(SubSeq(TableList[i], 1, 3)))

\* after a table with header rows and no data, the continuation table of
\* the rows SC-18(2) and AC-3 has given SC-18(2) and SC-18(3) as pre-authored
\* and nothing for AC-3
C26_Witness ==
    /\ pc = "pages"
    /\ ~IsNone(prev_structure)
    /\ DOMAIN all_controls = {"SC-18(2)", "SC-18(3)"}
    /\ all_controls["SC-18(3)"].title = "Prevent Downloading and Execution"
    /\ all_controls["SC-18(2)"].selections.integrity.low
    /\ ~all_controls["SC-18(2)"].selections.confidentiality.high
    /\ \E i \in ContinuationTables \cap NamesSC18 : Len(TableList[i]) = 2

(***************************************************************************)
(* The selections of the rows of the PT family (SpecRow)                   *)
(***************************************************************************)
\* C27: every accepted row of the PT family carries the fixed annotation in
\* the place of selections derived from its columns: its nine selection
\* booleans are all False whatever marks the row has, and
\* selections.special_text is the text of the PT family.
C27_PTAnnotationInsteadOfSelections ==
    (Accepted /\ FamilyOf(result.control_id) = "PT") =>
        /\ ~SomeBoolean
        /\ result.selections.special_text = PTText

\* the part of it that is about the annotation
C27_PTAnnotation ==
    (Accepted /\ FamilyOf(result.control_id) = "PT") =>
        result.selections.special_text = PTText

(***************************************************************************)
(* Rows with an identifier and the final mapping (SpecTable)               *)
(***************************************************************************)
\* the identifiers of the rows of a table that have at least 10 cells and
\* an identifier of a two-letter family in one of their first three cells
DataRowIds(extracted) ==
    {Strip(Cell(extracted[k], i)) :
        <<k, i>> \in {p \in (1..Len(extracted)) \X (0..2) :
                        /\ Len(extracted[p[1]]) >= MinRowCells
                        /\ MatchControlId(Strip(Cell(extracted[p[1]], p[2])))}}

\* DataRowIds tabulated over the tables of the document
DataRowIdsOf == [i \in Tables |-> DataRowIds(TableList[i])]

\* C28: no data row is lost: after a page is read, every row of its tables
\* that has at least 10 cells and an identifier of a two-letter family in
\* one of its first cells has a record for that identifier in all_controls,
\* in a table with header rows, in a continuation table of fewer than 4
\* rows and in a table of 4 rows or more without header rows, whether or
\* not a structure was detected before.
C28_NoDataRowLost ==
    [][\A tables \in Pages :
        ReadsPage(tables) =>
            \A k \in 1..Len(tables) : DataRowIdsOf[tables[k]] \subseteq DOMAIN all_controls']_vars

\* the same for the rows after the third of the tables of 4 rows or more
C28_RowsAfterHeaderRowsKept ==
    [][\A tables \in Pages :
        ReadsPage(tables) =>
            \A k \in 1..Len(tables) :
                ~IsShortTable(TableList[tables[k]]) =>
                    DataRowIds(SubSeq(TableList[tables[k]], 4, Len(TableList[tables[k]])))
                        \subseteq DOMAIN all_controls']_vars

(***************************************************************************)
(* Selection rows: superseded/cnssi_1253_selection_extractor.py            *)
(*                                                                         *)
(* A page is the list of the lines of page.get_text(); a control is        *)
(* [id, name, selected].  NoMatch stands for current_control = None.       *)
(***************************************************************************)
\* p in s.lower()
InLowercased(s, p) ==
    \E i \in 1..(Len(s) - Len(p) + 1) :
        \A k \in 1..Len(p) : LowerCh(Ch(s, i + k - 1)) = Ch(p, k)

\* s.count(p) for a p that cannot overlap itself
CountOf(s, p) == Cardinality({i \in 1..Len(s) : HasAt(s, i, p)})

\* is_table_header_row
is_table_header_row(text_line) ==
    \/ InUppercased(text_line, "ID") /\ InUppercased(text_line, "TITLE")
    \/ InUppercased(text_line, "CONFIDENTIALITY") /\ InUppercased(text_line, "INTEGRITY")
    \/ InUppercased(text_line, "AVAILABILITY")
    \/ Strip(text_line) = "L M H L M H L M H"
    \/ Contains(text_line, "L M H") /\ CountOf(text_line, "L M H") >= 2
    \/ extract_control_id(text_line) = "AC-1"

\* has_selection_markers: (?:^|\s)([X+])(?:\s|$) is found in text
has_selection_markers(text) ==
    \E i \in 1..Len(text) :
        /\ Ch(text, i) \in {"X", "+"}
        /\ (i = 1 \/ IsSpace(Ch(text, i - 1)))
        /\ (i = Len(text) \/ IsSpace(Ch(text, i + 1)))

\* ' '.join(title.split())
JoinSplit(title) ==
    LET s == Strip(title)
        join[k \in 0..Len(s)] ==
            IF k = 0 THEN ""
            ELSE IF ~IsSpace(Ch(s, k)) THEN join[k - 1] \o Ch(s, k)
            ELSE IF IsSpace(Ch(s, k - 1)) THEN join[k - 1]
            ELSE join[k - 1] \o " "
    IN  join[Len(s)]

\* re.sub(r'\s*[X+]\s*$', '', title).strip() for a title without blanks at
\* its end
DropTrailingMarker(title) ==
    IF title # "" /\ Ch(title, Len(title)) \in {"X", "+"}
    THEN Strip(SubSeq(title, 1, Len(title) - 1))
    ELSE Strip(title)

\* clean_title
clean_title(title) == DropTrailingMarker(JoinSplit(title))

\* is_only_markers: ^[X+\s]*$
is_only_markers(text) ==
    \A i \in 1..Len(text) : Ch(text, i) \in {"X", "+"} \/ IsSpace(Ch(text, i))

\* is_footnote_or_header
is_footnote_or_header(text) ==
    \/ IsDigits(Strip(text))
    \/ InLowercased(text, "changes to the security control catalog")
    \/ InLowercased(text, "under the authority of nist")
    \/ InLowercased(text, "cnssi no.")
    \/ InLowercased(text, "appendix")
    \/ StartsWith(text, "D-") /\ Len(text) < 10
    \/ Len(Strip(text)) < 3

\* should_continue_control_title
should_continue_control_title(text, current_control_id) ==
    /\ ~is_footnote_or_header(text)
    /\ extract_control_id(text) = None
    /\ ~is_only_markers(text)
    /\ ~(Contains(text, "Confidentiality") \/ Contains(text, "Integrity")
            \/ Contains(text, "Availability"))

\* the locals of extract_controls_from_page before its loop
NewPage ==
    [controls                           |-> <<>>,
     in_table                           |-> FALSE,
     current_control                    |-> NoMatch,
     found_first_content_after_header   |-> FALSE]

\* controls with current_control saved, when there is one with a name
SaveCurrent(controls, current_control) ==
    IF ~IsNone(current_control) /\ current_control.name # ""
    THEN Append(controls, current_control)
    ELSE controls

\* the line is taken as text carried over from the page before (lines 186-201)
IsCarriedOver(st, line, control_id) ==
    /\ ~st.found_first_content_after_header
    /\ control_id = None
    /\ ~is_footnote_or_header(line)
    /\ ~is_only_markers(line)
    /\ clean_title(line) # ""

\* a line with an identifier opens a control (lines 203-229)
OpenControl(st, line, control_id, remaining) ==
    [controls                         |-> SaveCurrent(st.controls, st.current_control),
     in_table                         |-> TRUE,
     current_control                  |->
         [id       |-> control_id,
          name     |-> IF remaining # "" /\ ~is_only_markers(remaining)
                       THEN clean_title(remaining)
                       ELSE "",
          selected |-> has_selection_markers(line)],
     found_first_content_after_header |-> TRUE]

\* a line without identifier while a control is open (lines 231-247)
ContinueControl(st, line, cleaned_line) ==
    [st EXCEPT
        !.in_table = TRUE,
        !.found_first_content_after_header = TRUE,
        !.current_control.name =
            IF should_continue_control_title(line, st.current_control.id) /\ cleaned_line # ""
            THEN IF @ # "" THEN @ \o " " \o cleaned_line ELSE cleaned_line
            ELSE @,
        !.current_control.selected = @ \/ has_selection_markers(line)]

\* a line without identifier while no control is open (lines 249-252)
MarkLast(st, line) ==
    IF st.controls # <<>> /\ has_selection_markers(line)
    THEN [st EXCEPT !.in_table = TRUE, !.controls[Len(st.controls)].selected = TRUE]
    ELSE [st EXCEPT !.in_table = TRUE]

\* one pass of the loop over the lines, for a stripped line that is not
\* empty and its identifier
ReadTableLine(st, line, control_id) ==
    IF is_table_header_row(line)
    THEN [st EXCEPT !.in_table = TRUE, !.found_first_content_after_header = FALSE]
    ELSE IF ~st.in_table /\ control_id = None
    THEN st
    ELSE IF IsCarriedOver(st, line, control_id)
    THEN [st EXCEPT !.in_table = TRUE,
                    !.controls = Append(@, [id       |-> "CONTINUATION",
                                            name     |-> clean_title(line),
                                            selected |-> has_selection_markers(line)]),
                    !.found_first_content_after_header = TRUE]
    ELSE IF control_id # None
    THEN OpenControl(st, line, control_id, Strip(From(line, Len(control_id) + 1)))
    ELSE IF ~IsNone(st.current_control)
    THEN ContinueControl(st, line, clean_title(line))
    ELSE MarkLast(st, line)

\* one pass of the loop over the lines
ReadRawLine(st, raw) ==
    IF Strip(raw) = "" THEN st
    ELSE ReadTableLine(st, Strip(raw), extract_control_id(Strip(raw)))

\* extract_controls_from_page: the controls of the lines of a page
extract_controls_from_page(lines) ==
    LET after[k \in 0..Len(lines)] ==
            IF k = 0 THEN NewPage ELSE ReadRawLine(after[k - 1], lines[k])
    IN  SaveCurrent(after[Len(lines)].controls, after[Len(lines)].current_control)

\* one pass of the loop of merge_continuation_controls
MergeOne(merged_controls, control) ==
    IF control.id = "CONTINUATION"
    THEN IF merged_controls # <<>>
         THEN [merged_controls EXCEPT
                  ![Len(merged_controls)].name = @ \o " " \o control.name,
                  ![Len(merged_controls)].selected = @ \/ control.selected]
         ELSE merged_controls
    ELSE Append(merged_controls, control)

\* merge_continuation_controls
merge_continuation_controls(all) ==
    LET merged[k \in 0..Len(all)] ==
            IF k = 0 THEN <<>> ELSE MergeOne(merged[k - 1], all[k])
    IN  merged[Len(all)]

\* all_controls of parse_document: the controls of the pages, in order
PagesControls(doc) ==
    LET upto[k \in 0..Len(doc)] ==
            IF k = 0 THEN <<>> ELSE upto[k - 1] \o extract_controls_from_page(doc[k])
    IN  upto[Len(doc)]

\* selected_controls of the merged controls (lines 317-327)
SelectedControls(merged_controls) ==
    LET kept == SelectSeq(merged_controls,
                          LAMBDA control : /\ control.id # ""
                                           /\ control.id # "CONTINUATION"
                                           /\ control.name # ""
                                           /\ control.selected)
    IN  [k \in 1..Len(kept) |-> [id |-> kept[k].id, name |-> kept[k].name]]

\* parse_document
parse_document(doc) == SelectedControls(merge_continuation_controls(PagesControls(doc)))

(***************************************************************************)
(* parse_document over documents of a few pages                            *)
(***************************************************************************)
\* the most pages of a document and the most lines of a page
MaxDocPages == 2

MaxPageLines == 2

\* the lines a page is made of
SelectionLines ==
    {"AC-2 Account Management X",
     "AC-1 Policy and Procedures X",
     "SC-6 Resource Availability +",
     "ID TITLE",
     "AC-3 Access Enforcement",
     "Access Enforcement",
     "X",
     "12"}

\* the documents: up to MaxDocPages pages of up to MaxPageLines lines
SelectionDocuments == SeqsUpTo(SeqsUpTo(SelectionLines, MaxPageLines), MaxDocPages)

\* CNSSIParser.parse_document
ParseDocument ==
    /\ pc = "document"
    /\ call_result' = parse_document(call_args)
    /\ pc' = "document_parsed"
    /\ UNCHANGED call_args
    /\ CallOnly

InitDocument ==
    /\ pc = "document"
    /\ call_args \in SelectionDocuments
    /\ call_result = <<>>
    /\ FnIdle
    /\ TableIdle
    /\ LinesIdle
    /\ OverlayIdle

NextDocument == ParseDocument

\* parse_document over every document
SpecDocument == InitDocument /\ [][NextDocument]_vars

(***************************************************************************)
(* Properties of parse_document (SpecDocument)                             *)
(***************************************************************************)
\* the line begins with an identifier, goes on with a title and has a
\* marker X or +
IsSelectedRow(line) ==
    /\ ControlIdLenAt(line, 1) > 0
    /\ clean_title(From(line, ControlIdLenAt(line, 1) + 1)) # ""
    /\ has_selection_markers(line)

\* the rows of the lines of a document that have an identifier, a title and
\* a marker
SelectedRows(doc) ==
    {line \in SelectionLines :
        /\ IsSelectedRow(line)
        /\ \E k \in 1..Len(doc) : \E i \in 1..Len(doc[k]) : doc[k][i] = line}

\* the identifier a line begins with
RowId(line) == SubSeq(line, 1, ControlIdLenAt(line, 1))

\* the identifiers of the records returned
ReturnedIds == {call_result[k].id : k \in 1..Len(call_result)}

\* C29: parse_document returns a record for every line that begins with an
\* identifier, goes on with a title and has a marker X or +; no identifier
\* (AC-1 among them) and no wording of a title makes the line a header row
\* of the table that is passed over.
C29_EverySelectedRowReturned ==
    pc = "document_parsed" =>
        \A line \in SelectedRows(call_args) : RowId(line) \in ReturnedIds

\* the same for the rows that is_table_header_row does not take for a header
C29_RowsNotTakenForHeaderReturned ==
    pc = "document_parsed" =>
        \A line \in SelectedRows(call_args) :
            ~is_table_header_row(line) => RowId(line) \in ReturnedIds

(***************************************************************************)
(* Detected identifiers and the returned mapping (SpecOverlay)             *)
(***************************************************************************)
\* the identifiers detected in the fragments of each page
DetectedIds ==
    [spans \in OverlayPages |->
        LET found == control_ids_found(PageElements[spans, 1])
        IN  {found[k].control_id : k \in 1..Len(found)}]

\* the identifiers that have a record or are the one of the open record
KnownIds(self) ==
    DOMAIN self.controls
        \cup (IF self.current_control_id = None THEN {} ELSE {self.current_control_id})

\* _process_page has read this page in the step
ReadsOverlayPage(spans) ==
    /\ pc = "overlay"
    /\ pages_done' = pages_done + 1
    /\ extractor' = _process_page_elements(extractor, PageElements[spans, pages_done + 1],
                                          pages_done + 1)

\* C30: every identifier detected in a fragment of a page is a key of the
\* mapping extract_controls returns.  Step by step: after a page each of its
\* identifiers has a record or is the one of the open record; an identifier
\* that has a record or is open keeps its record or stays open, or gets its
\* record when another identifier is met and at the end of the document;
\* and when extract_controls returns, no record is open and the buffer is
\* empty, so that all of them are keys.
C30_DetectedIdsAreReturned ==
    [][/\ KnownIds(extractor) \subseteq KnownIds(extractor')
       /\ \A spans \in OverlayPages :
              \/ DetectedIds[spans] \subseteq KnownIds(extractor')
              \/ ~ReadsOverlayPage(spans)
       /\ pc' = "overlay_returned" =>
              /\ extractor'.current_control_id = None
              /\ extractor'.current_control_elements = <<>>
              /\ KnownIds(extractor) \subseteq DOMAIN extractor'.controls]_vars

\* AC-1 was closed by AC-2 on its page, AC-2 by AC-2(1) on a later page and
\* AC-2(1) at the end of the document: all three are keys and nothing is
\* open
C30_Witness ==
    /\ pc = "overlay_returned"
    /\ DOMAIN extractor.controls = {"AC-1", "AC-2", "AC-2(1)"}
    /\ DOMAIN finalized = {"AC-1", "AC-2", "AC-2(1)"}
    /\ extractor.current_control_id = None
    /\ extractor.current_control_elements = <<>>
    /\ extractor.controls["AC-2(1)"].control_text = "Delta"

=============================================================================
